---- MODULE Spec2Model ----
(***************************************************************************)
(* Model of the joke generator (src/app.py): the generate-dedupe-persist   *)
(* pipeline (api_joke), the flat-file content store (save_joke,            *)
(* _get_jokes), the listing (all_jokes), the lookup of one joke            *)
(* (_load_joke) and the share endpoint (api_share).                        *)
(*                                                                         *)
(* Text is a sequence of one-character strings.  A file of the content     *)
(* store is named by its id, the stem of its name "{ts}-{slug}.md".        *)
(*                                                                         *)
(* Spec is the server with its request threads.  LookupSpec, ListSpec,     *)
(* CleanSpec, DupSpec, SaveSpec and CacheSpec run single operations        *)
(* (lookups and shares, listings with arguments, _clean_joke,              *)
(* _is_duplicate, save_joke, _get_jokes) over the stores and inputs their  *)
(* sections describe.  StaleSpec runs save_joke and _get_jokes in request  *)
(* threads with the assignments of _get_jokes as separate steps, and       *)
(* LlmSpec the first calls of _get_llm.  LoginSpec is the device-code      *)
(* login of the login script (src/basilica_login.py).                      *)
(***************************************************************************)
EXTENDS Integers, Sequences, FiniteSets, TLC

(***************************************************************************)
(* Program constants                                                       *)
(***************************************************************************)
MAX_RETRIES == 3
MIN_JOKE_LEN == 20
SLUG_PREFIX_LEN == 40
RECENT_WINDOW == 50
\* DEDUP_THRESHOLD = 0.6 = DEDUP_NUM / DEDUP_DEN
DEDUP_NUM == 6
DEDUP_DEN == 10
JOKES_PER_PAGE == 20

(***************************************************************************)
(* Bounds of the model                                                     *)
(***************************************************************************)
\* the UTC clock (whole seconds) runs over 1..MaxTime
MaxTime == 2
\* number of /api/joke requests served in a behaviour
MaxJokeRequests == 2
\* number of other requests (listing, share) served in a behaviour
MaxOtherRequests == 2
\* number of requests of any kind served in a behaviour
MaxRequests == 3
\* number of request threads of the web server
NumThreads == 2

(***************************************************************************)
(* Characters and strings                                                  *)
(***************************************************************************)
RECURSIVE Rep(_, _)
Rep(c, n) == IF n = 0 THEN <<>> ELSE <<c>> \o Rep(c, n - 1)

Min(a, b) == IF a <= b THEN a ELSE b

Max(a, b) == IF a >= b THEN a ELSE b

\* str.isspace for the characters of the model's alphabet
IsSpace(c) == c \in {" ", "\n"}

LOWER_LETTERS ==
    <<"a", "b", "c", "d", "e", "f", "g", "h", "i", "j", "k", "l", "m",
      "n", "o", "p", "q", "r", "s", "t", "u", "v", "w", "x", "y", "z">>
UPPER_LETTERS ==
    <<"A", "B", "C", "D", "E", "F", "G", "H", "I", "J", "K", "L", "M",
      "N", "O", "P", "Q", "R", "S", "T", "U", "V", "W", "X", "Y", "Z">>
DIGITS == <<"0", "1", "2", "3", "4", "5", "6", "7", "8", "9">>

\* the 1-based position of c in the sequence s, 0 when c is not in s
IndexIn(s, c) ==
    IF \E i \in 1..Len(s) : s[i] = c
    THEN CHOOSE i \in 1..Len(s) : s[i] = c
    ELSE 0

\* str.lower, per character
LowerChar(c) ==
    IF IndexIn(UPPER_LETTERS, c) > 0
    THEN LOWER_LETTERS[IndexIn(UPPER_LETTERS, c)]
    ELSE c

Lower(s) == [i \in 1..Len(s) |-> LowerChar(s[i])]

\* the character class [a-z0-9] of the slug regex
IsSlugChar(c) == IndexIn(LOWER_LETTERS, c) > 0 \/ IndexIn(DIGITS, c) > 0

\* sub occurs in s at the (1-based) position p
MatchesAt(s, p, sub) ==
    /\ p >= 1
    /\ p + Len(sub) - 1 <= Len(s)
    /\ \A i \in 1..Len(sub) : s[p + i - 1] = sub[i]

\* str.find from a 1-based start position: first position >= from where sub
\* occurs, 0 when there is none
Find(s, sub, from) ==
    LET hits == {p \in from..(Len(s) - Len(sub) + 1) : MatchesAt(s, p, sub)}
    IN  IF hits = {} THEN 0 ELSE CHOOSE p \in hits : \A q \in hits : p <= q

\* str.strip(): without leading and trailing whitespace
StripSpace(s) ==
    LET keep == {i \in 1..Len(s) : ~IsSpace(s[i])}
    IN  IF keep = {} THEN <<>>
        ELSE LET lo == CHOOSE i \in keep : \A j \in keep : i <= j
                 hi == CHOOSE i \in keep : \A j \in keep : i >= j
             IN  SubSeq(s, lo, hi)

\* str.strip(ch): without every leading and trailing occurrence of ch
StripChar(s, ch) ==
    LET keep == {i \in 1..Len(s) : s[i] # ch}
    IN  IF keep = {} THEN <<>>
        ELSE LET lo == CHOOSE i \in keep : \A j \in keep : i <= j
                 hi == CHOOSE i \in keep : \A j \in keep : i >= j
             IN  SubSeq(s, lo, hi)

THINK_OPEN == <<"<", "t", "h", "i", "n", "k", ">">>
THINK_CLOSE == <<"<", "/", "t", "h", "i", "n", "k", ">">>

\* position after the run of whitespace that starts at p
RECURSIVE SkipSpace(_, _)
SkipSpace(s, p) ==
    IF p <= Len(s) /\ IsSpace(s[p]) THEN SkipSpace(s, p + 1) ELSE p

\* the greedy pattern r"<think>.*</think>\s*": up to the last </think>
SubPairedGreedy(s, from) ==
    LET o == Find(s, THINK_OPEN, from)
        cs == IF o = 0 THEN {}
              ELSE {p \in (o + Len(THINK_OPEN))..Len(s) : MatchesAt(s, p, THINK_CLOSE)}
        c == CHOOSE p \in cs : \A q \in cs : p >= q
    IN  IF cs = {}
        THEN SubSeq(s, from, Len(s))
        ELSE SubSeq(s, from, o - 1)
             \o SubSeq(s, SkipSpace(s, c + Len(THINK_CLOSE)), Len(s))

\* re.sub(r"<think>.*?</think>\s*", "", raw, flags=re.DOTALL): scanning from
\* position from, every leftmost <think> with the nearest </think> after it
\* is removed together with the whitespace that follows
RECURSIVE SubPaired(_, _)
SubPaired(s, from) ==
    LET o == Find(s, THINK_OPEN, from)
        c == IF o = 0 THEN 0 ELSE Find(s, THINK_CLOSE, o + Len(THINK_OPEN))
    IN  IF o = 0 \/ c = 0
        THEN SubSeq(s, from, Len(s))
        ELSE SubSeq(s, from, o - 1)
             \o SubPaired(s, SkipSpace(s, c + Len(THINK_CLOSE)))

SubUnpairedAbsent(s) == s

\* re.sub(r"<think>.*", "", text, flags=re.DOTALL)
SubUnpaired(s) ==
    LET o == Find(s, THINK_OPEN, 1)
    IN  IF o = 0 THEN s ELSE SubSeq(s, 1, o - 1)

_clean_joke(raw) ==
    StripSpace(StripChar(StripSpace(SubUnpaired(SubPaired(raw, 1))), "\""))

(***************************************************************************)
(* Similarity filter: difflib.SequenceMatcher(None, a, b).ratio()          *)
(***************************************************************************)
\* length of the common run of a from i and b from j, inside a[..ahi], b[..bhi]
RECURSIVE RunLen(_, _, _, _, _, _)
RunLen(a, i, ahi, b, j, bhi) ==
    IF i > ahi \/ j > bhi THEN 0
    ELSE IF a[i] # b[j] THEN 0
    ELSE 1 + RunLen(a, i + 1, ahi, b, j + 1, bhi)

\* SequenceMatcher.find_longest_match without junk: <<i, j, k>>, the longest
\* block a[i..i+k-1] = b[j..j+k-1] inside a[alo..ahi], b[blo..bhi]; of the
\* longest blocks the one that starts earliest in a, and of those the one
\* that starts earliest in b; <<alo, blo, 0>> when nothing matches
FindLongestMatch(a, alo, ahi, b, blo, bhi) ==
    LET pairs == (alo..ahi) \X (blo..bhi)
        k == [p \in pairs |-> RunLen(a, p[1], ahi, b, p[2], bhi)]
        sizes == {k[p] : p \in pairs}
        bestsize == CHOOSE n \in sizes : \A m \in sizes : n >= m
        besti == LET is == {p[1] : p \in {q \in pairs : k[q] = bestsize}}
                 IN  CHOOSE i \in is : \A i2 \in is : i <= i2
        bestj == LET js == {j \in blo..bhi : k[<<besti, j>>] = bestsize}
                 IN  CHOOSE j \in js : \A j2 \in js : j <= j2
    IN  IF bestsize = 0 THEN <<alo, blo, 0>> ELSE <<besti, bestj, bestsize>>

\* sum of the sizes of SequenceMatcher.get_matching_blocks: the longest
\* block, then recursively the pieces to its left and to its right
RECURSIVE MatchCount(_, _, _, _, _, _)
MatchCount(a, alo, ahi, b, blo, bhi) ==
    IF alo > ahi \/ blo > bhi THEN 0
    ELSE LET m == FindLongestMatch(a, alo, ahi, b, blo, bhi)
         IN  IF m[3] = 0 THEN 0
             ELSE m[3]
                  + MatchCount(a, alo, m[1] - 1, b, blo, m[2] - 1)
                  + MatchCount(a, m[1] + m[3], ahi, b, m[2] + m[3], bhi)

\* SequenceMatcher(None, a, b).ratio() > DEDUP_THRESHOLD, where ratio is
\* 2.0 * matches / (len(a) + len(b)) and 1.0 when both are empty
RatioAboveThreshold(a, b) ==
    LET total == Len(a) + Len(b)
        matches == MatchCount(a, 1, Len(a), b, 1, Len(b))
    IN  IF total = 0 THEN TRUE
        ELSE 2 * matches * DEDUP_DEN > DEDUP_NUM * total

(***************************************************************************)
(* Content store: file names, file bodies, parsing                         *)
(***************************************************************************)
\* ord(c) for the characters that occur in file names: "-", ".", digits and
\* lower-case letters
Ord(c) ==
    CASE c = "-" -> 45
      [] c = "." -> 46
      [] IndexIn(DIGITS, c) > 0 -> 47 + IndexIn(DIGITS, c)
      [] IndexIn(LOWER_LETTERS, c) > 0 -> 96 + IndexIn(LOWER_LETTERS, c)

\* Python's str comparison a < b: by code point, a proper prefix is smaller
RECURSIVE StrLess(_, _)
StrLess(a, b) ==
    IF b = <<>> THEN FALSE
    ELSE IF a = <<>> THEN TRUE
    ELSE IF a[1] # b[1] THEN Ord(a[1]) < Ord(b[1])
    ELSE StrLess(Tail(a), Tail(b))

\* datetime.now(timezone.utc).strftime("%Y%m%d-%H%M%S"): fixed width, so
\* increasing in the clock; the clock of the model is one digit wide
TsStr(t) == <<DIGITS[t + 1]>>

MD_SUFFIX == <<".", "m", "d">>

\* re.sub(r"[^a-z0-9]+", "-", s): every run of other characters becomes "-"
RECURSIVE SubNonSlug(_, _)
SubNonSlug(s, inRun) ==
    IF s = <<>> THEN <<>>
    ELSE IF IsSlugChar(s[1]) THEN <<s[1]>> \o SubNonSlug(Tail(s), FALSE)
    ELSE IF inRun THEN SubNonSlug(Tail(s), TRUE)
    ELSE <<"-">> \o SubNonSlug(Tail(s), TRUE)

\* slug = re.sub(r"[^a-z0-9]+", "-", joke[:40].lower()).strip("-")
Slug(joke) ==
    StripChar(SubNonSlug(Lower(SubSeq(joke, 1, Min(SLUG_PREFIX_LEN, Len(joke)))),
                         FALSE), "-")

\* Path(filename).stem for filename = f"{ts}-{slug}.md"
JokeId(t, joke) == TsStr(t) \o <<"-">> \o Slug(joke)

\* the markdown body save_joke writes
FileContent(joke, factoid, technique) ==
    <<"#", " ", "R", "o", "a", "s", "t", "\n", "\n", ">", " ">> \o joke
    \o <<"\n", "\n", "*", "*", "S", "t", "y", "l", "e", ":", "*", "*", " ">>
    \o technique
    \o <<" ", " ", "\n", "*", "*", "F", "a", "c", "t", "o", "i", "d", ":",
         "*", "*", " ">>
    \o factoid \o <<"\n">>

\* the position after the last character of the line that contains p
\* (the position of its "\n", or Len + 1)
LineEnd(s, p) ==
    LET nl == Find(s, <<"\n">>, p)
    IN  IF nl = 0 THEN Len(s) + 1 ELSE nl

\* re.search(r"^> (.+)$", text, re.MULTILINE): the rest of the first line
\* that starts with "> " and has a character after it; <<FALSE, ..>> if none
JokeMatch(text) ==
    LET starts == {p \in 1..Len(text) :
                     /\ p = 1 \/ text[p - 1] = "\n"
                     /\ MatchesAt(text, p, <<">", " ">>)
                     /\ LineEnd(text, p) > p + 2}
    IN  IF starts = {} THEN <<FALSE, <<>>>>
        ELSE LET p == CHOOSE x \in starts : \A y \in starts : x <= y
             IN  <<TRUE, SubSeq(text, p + 2, LineEnd(text, p) - 1)>>

STYLE_LABEL == <<"*", "*", "S", "t", "y", "l", "e", ":", "*", "*", " ">>

\* re.search(r"\*\*Style:\*\* (.+)", text): the rest of the line after the
\* first "**Style:** " that has a character after it on its line
StyleMatch(text) ==
    LET n == Len(STYLE_LABEL)
        starts == {p \in 1..Len(text) :
                     /\ MatchesAt(text, p, STYLE_LABEL)
                     /\ LineEnd(text, p) > p + n}
    IN  IF starts = {} THEN <<FALSE, <<>>>>
        ELSE LET p == CHOOSE x \in starts : \A y \in starts : x <= y
             IN  <<TRUE, SubSeq(text, p + n, LineEnd(text, p) - 1)>>

PARSE_ERROR == <<"(", "p", "a", "r", "s", "e", " ", "e", "r", "r", "o", "r", ")">>

\* _parse_joke_file: the record of the file with the given stem and body
\* (the "time" field is a rendering of the stem and is left out)
_parse_joke_file(stem, text) ==
    LET jm == JokeMatch(text)
        sm == StyleMatch(text)
    IN  [id |-> stem,
         joke |-> IF jm[1] THEN StripSpace(jm[2]) ELSE PARSE_ERROR,
         style |-> IF sm[1] THEN StripSpace(sm[2]) ELSE <<>>]

(***************************************************************************)
(* Static data loaded at startup and the inputs of the model               *)
(***************************************************************************)
\* texts a model call can produce once cleaned: two that differ only after
\* their first 40 characters, one that copies an example, a short one
JOKE_A == Rep("a", 40) \o <<"x">>
JOKE_A2 == <<"A">> \o Rep("a", 39) \o <<"y">>
JOKE_E == Rep("e", 20)
JOKE_SHORT == <<"h", "i">>

\* EXAMPLES = load_examples(...): technique name -> example jokes
TECHNIQUE_M == <<"M">>
EXAMPLE_1 == <<"E">> \o Rep("e", 19)
EXAMPLE_2 == Rep("k", 20)
EXAMPLES == [k \in {TECHNIQUE_M} |-> {EXAMPLE_1, EXAMPLE_2}]
TECHNIQUES == DOMAIN EXAMPLES
ALL_EXAMPLES == UNION {EXAMPLES[k] : k \in TECHNIQUES}

\* FACTOIDS = load_factoids(...)
FACTOIDS == {<<"f">>}

\* what response.choices[0].message.content can be
RAW_OUTPUTS ==
    << THINK_OPEN \o <<"o", "k">> \o THINK_CLOSE \o <<"\n">> \o JOKE_A,
       <<"\"">> \o JOKE_A2 \o <<"\"", " ">>,
       JOKE_E,
       JOKE_SHORT \o <<"\n">>,
       THINK_OPEN \o <<"h", "m">> >>

RawOutputs == {RAW_OUTPUTS[i] : i \in 1..Len(RAW_OUTPUTS)}

\* _clean_joke of every RAW_OUTPUTS[i], from i on, computed once
RECURSIVE CleanedFrom(_)
CleanedFrom(i) ==
    IF i > Len(RAW_OUTPUTS) THEN <<>>
    ELSE <<_clean_joke(RAW_OUTPUTS[i])>> \o CleanedFrom(i + 1)

CLEANED_OUTPUTS == CleanedFrom(1)

\* _clean_joke(raw), looked up for the outputs of the model
Cleaned(raw) ==
    IF IndexIn(RAW_OUTPUTS, raw) > 0
    THEN CLEANED_OUTPUTS[IndexIn(RAW_OUTPUTS, raw)]
    ELSE _clean_joke(raw)

SITE_URL == <<"s">>

(***************************************************************************)
(* _is_duplicate                                                           *)
(***************************************************************************)
\* the texts the similarity filter meets in the model
KNOWN_TEXTS ==
    CLEANED_OUTPUTS \o <<PARSE_ERROR, EXAMPLE_1, EXAMPLE_2>>

\* SequenceMatcher(None, a.lower(), b.lower()).ratio() > DEDUP_THRESHOLD
SimilarityCheck(a, b) == RatioAboveThreshold(Lower(a), Lower(b))

\* SimilarityCheck over KNOWN_TEXTS, computed once: row i from column j on,
\* and the rows from i on
RECURSIVE SimilarRowFrom(_, _)
SimilarRowFrom(i, j) ==
    IF j > Len(KNOWN_TEXTS) THEN <<>>
    ELSE <<SimilarityCheck(KNOWN_TEXTS[i], KNOWN_TEXTS[j])>>
         \o SimilarRowFrom(i, j + 1)

RECURSIVE SimilarRowsFrom(_)
SimilarRowsFrom(i) ==
    IF i > Len(KNOWN_TEXTS) THEN <<>>
    ELSE <<SimilarRowFrom(i, 1)>> \o SimilarRowsFrom(i + 1)

SIMILAR_TABLE == SimilarRowsFrom(1)

\* SimilarityCheck(a, b), looked up for the texts of the model
Similar(a, b) ==
    IF IndexIn(KNOWN_TEXTS, a) > 0 /\ IndexIn(KNOWN_TEXTS, b) > 0
    THEN SIMILAR_TABLE[IndexIn(KNOWN_TEXTS, a)][IndexIn(KNOWN_TEXTS, b)]
    ELSE SimilarityCheck(a, b)

DupOfExampleSkipped(joke) == FALSE

\* first loop of _is_duplicate: against all few-shot examples
DupOfExample(joke) == \E ex \in ALL_EXAMPLES : Similar(joke, ex)

DupOfAnyRecord(joke, listing) ==
    \E i \in 1..Len(listing) : Similar(joke, listing[i].joke)

\* second loop of _is_duplicate: against recent = _get_jokes()[:50]
DupOfRecent(joke, listing) ==
    \E i \in 1..Min(RECENT_WINDOW, Len(listing)) : Similar(joke, listing[i].joke)

(***************************************************************************)
(* State                                                                   *)
(***************************************************************************)
VARIABLES
    now,                \* the UTC clock, in whole seconds
    files,              \* JOKES_DIR: file stem -> file body
    _joke_cache,        \* module global: the parsed listing
    _joke_cache_count,  \* module global: file count at the last parse
    GITHUB_TOKEN,       \* module global, read from the environment at startup
    remote,             \* names of the files of the external repository
    pc,                 \* per request thread: where its handler stands
    loc,                \* per request thread: the handler's local variables
    resp,               \* per request thread: the response of its last request
    hist,               \* per request thread: what its /api/joke request did so far
    saveLog,            \* save_joke calls in order of completion
    served,             \* requests accepted so far
    putCount,           \* requests sent to the external API so far
    _llm,               \* module global: the model client, None at first
    deployments,        \* the deployments the deployment service lists
    login,              \* basilica_login.py: where login_device_code stands, its locals
    AUTH_FILE           \* basilica_login.py: the credential file

vars == <<now, files, _joke_cache, _joke_cache_count, GITHUB_TOKEN, remote,
          pc, loc, resp, hist, saveLog, served, putCount, _llm, deployments,
          login, AUTH_FILE>>

Threads == 1..NumThreads

\* _llm = None; a client is named by the position of its deployment in the
\* service's list
None == 0

\* a deployment that some earlier process has made and that still runs
RUNNING_DEPLOYMENT == [state |-> "Active", made |-> "earlier"]

\* the first deployment of the list whose state is "Active", None without one
FirstActive(ds) ==
    LET active == {i \in 1..Len(ds) : ds[i].state = "Active"}
    IN  IF active = {} THEN None
        ELSE CHOOSE i \in active : \A j \in active : i <= j

\* the server hands an arriving request to a free thread; the threads are
\* alike, so it is the first free one
FirstFree(t) == pc[t] = "idle" /\ \A u \in Threads : u < t => pc[u] # "idle"

NoLoc ==
    [attempt |-> 0, joke |-> <<>>, factoid |-> <<>>, technique |-> <<>>,
     files |-> <<>>, caller |-> "none", joke_id |-> <<>>, filepath |-> <<>>,
     content |-> <<>>, status_code |-> 0,
     style |-> <<>>, page |-> [given |-> FALSE, text |-> <<>>],
     filtered |-> <<>>, deployment |-> None, client |-> None]

NoResp ==
    [route |-> "none", status |-> 0, ok |-> FALSE, error |-> "",
     upstream |-> 0, joke |-> <<>>, id |-> <<>>, url |-> <<>>,
     items |-> <<>>, unhandled |-> FALSE,
     style_filter |-> <<>>, count |-> 0, page |-> 0, total_pages |-> 0]

NoHist ==
    [calls |-> 0, raised |-> FALSE, nonEmpty |-> FALSE, last |-> <<>>,
     checked |-> FALSE, saves |-> 0, broke |-> FALSE]

\* basilica_login.py has not been started; there is no credential file
NoLogin ==
    [pc |-> "start", interval |-> 0, expires_at |-> 0, last |-> "none",
     granted |-> FALSE, writes |-> 0]

NO_FILE == "absent"

\* Flask's answer to an exception that escapes a handler
InternalServerError(route) ==
    [NoResp EXCEPT !.route = route, !.status = 500, !.unhandled = TRUE]

Init ==
    /\ now = 1
    /\ files = [x \in {} |-> <<>>]
    /\ _joke_cache = <<>>
    /\ _joke_cache_count = -1
    /\ GITHUB_TOKEN \in {"", "token"}
    /\ remote = {}
    /\ pc = [t \in Threads |-> "idle"]
    /\ loc = [t \in Threads |-> NoLoc]
    /\ resp = [t \in Threads |-> NoResp]
    /\ hist = [t \in Threads |-> NoHist]
    /\ saveLog = <<>>
    /\ served = [joke |-> 0, other |-> 0]
    /\ putCount = 0
    /\ _llm = None
    /\ deployments = <<RUNNING_DEPLOYMENT>>
    /\ login = NoLogin
    /\ AUTH_FILE = NO_FILE

(***************************************************************************)
(* The clock                                                               *)
(***************************************************************************)
Tick ==
    /\ now < MaxTime
    /\ now' = now + 1
    /\ UNCHANGED <<files, _joke_cache, _joke_cache_count, GITHUB_TOKEN, remote,
                   pc, loc, resp, hist, saveLog, served, putCount,
                   _llm, deployments,
                   login, AUTH_FILE>>

(***************************************************************************)
(* /api/joke                                                               *)
(***************************************************************************)
\* a request for /api/joke arrives: the handler enters its for loop
StartJoke(t) ==
    /\ FirstFree(t)
    /\ served.joke < MaxJokeRequests
    /\ served.joke + served.other < MaxRequests
    /\ served' = [served EXCEPT !.joke = @ + 1]
    /\ pc' = [pc EXCEPT ![t] = "call"]
    /\ loc' = [loc EXCEPT ![t] = [NoLoc EXCEPT !.caller = "joke"]]
    /\ UNCHANGED <<now, files, _joke_cache, _joke_cache_count, GITHUB_TOKEN,
                   remote, resp, hist, saveLog, putCount,
                   _llm, deployments,
                   login, AUTH_FILE>>

\* where the loop goes after `continue` (or after the last statement of its
\* body) in iteration `attempt` of range(MAX_RETRIES): the next iteration, or
\* past the loop to save_joke
AfterContinueOffByOne(attempt) ==
    IF attempt < MAX_RETRIES THEN "call" ELSE "save"

AfterContinueGiveUp(attempt) ==
    IF attempt + 1 < MAX_RETRIES THEN "call" ELSE "done"

AfterContinue(attempt) == IF attempt + 1 < MAX_RETRIES THEN "call" ELSE "save"

TooShortEmptyOnly(joke) == joke = <<>>

\* `if not joke or len(joke) < 20`
TooShort(joke) == joke = <<>> \/ Len(joke) < MIN_JOKE_LEN

\* one iteration of the loop up to the call of _get_jokes in _is_duplicate:
\* the random picks, the model call, _clean_joke, the length check and the
\* comparison with the examples
ModelCall(t) ==
    /\ pc[t] = "call"
    /\ \E factoid \in FACTOIDS, technique \in TECHNIQUES, raw \in RawOutputs :
         LET joke == Cleaned(raw)
             attempt == loc[t].attempt
             retry == TooShort(joke) \/ DupOfExample(joke)
         IN  /\ loc' = [loc EXCEPT ![t].joke = joke,
                                   ![t].factoid = factoid,
                                   ![t].technique = technique,
                                   ![t].caller = "joke",
                                   ![t].attempt =
                                       IF retry /\ attempt + 1 < MAX_RETRIES
                                       THEN attempt + 1 ELSE attempt]
             /\ pc' = [pc EXCEPT ![t] =
                          IF retry THEN AfterContinue(attempt) ELSE "glob"]
             /\ hist' = [hist EXCEPT
                            ![t].calls = @ + 1,
                            ![t].nonEmpty = @ \/ joke # <<>>,
                            ![t].last = joke,
                            ![t].checked = ~TooShort(joke)]
    \* _get_llm() finds a running deployment on the first call
    /\ _llm' = IF _llm = None THEN FirstActive(deployments) ELSE _llm
    /\ UNCHANGED <<now, files, _joke_cache, _joke_cache_count, GITHUB_TOKEN,
                   remote, resp, saveLog, served, putCount, deployments,
                   login, AUTH_FILE>>

\* the model call raises (the endpoint is down, the client times out)
ModelCallRaises(t) ==
    /\ pc[t] = "call"
    /\ pc' = [pc EXCEPT ![t] = "done"]
    /\ resp' = [resp EXCEPT ![t] = InternalServerError("joke")]
    /\ hist' = [hist EXCEPT ![t].raised = TRUE]
    /\ UNCHANGED <<now, files, _joke_cache, _joke_cache_count, GITHUB_TOKEN,
                   remote, loc, saveLog, served, putCount,
                   _llm, deployments,
                   login, AUTH_FILE>>

(***************************************************************************)
(* all_jokes: filtering and pagination of the listing                      *)
(***************************************************************************)
\* the value of a run of decimal digits
RECURSIVE DigitsValue(_)
DigitsValue(s) ==
    IF s = <<>> THEN 0
    ELSE 10 * DigitsValue(SubSeq(s, 1, Len(s) - 1))
         + (IndexIn(DIGITS, s[Len(s)]) - 1)

IntOfDigitsOnly(text) ==
    IF text = <<>> \/ \E i \in 1..Len(text) : IndexIn(DIGITS, text[i]) = 0
    THEN <<FALSE, 0>>
    ELSE <<TRUE, DigitsValue(text)>>

\* int(text): <<TRUE, n>>, or <<FALSE, 0>> where int raises ValueError; int
\* accepts outer whitespace and one sign before the digits
IntOf(text) ==
    LET s == StripSpace(text)
        signed == s # <<>> /\ s[1] \in {"-", "+"}
        ds == IF signed THEN Tail(s) ELSE s
    IN  IF ds = <<>> \/ \E i \in 1..Len(ds) : IndexIn(DIGITS, ds[i]) = 0
        THEN <<FALSE, 0>>
        ELSE <<TRUE, IF signed /\ s[1] = "-" THEN 0 - DigitsValue(ds)
                     ELSE DigitsValue(ds)>>

StyleFilterAnyValue(style) == StripSpace(style)

\* style_filter after the if / else of the filtering block
StyleFilter(style) ==
    LET style_filter == StripSpace(style)
    IN  IF style_filter # <<>> /\ style_filter \in TECHNIQUES
        THEN style_filter ELSE <<>>

\* filtered
Filtered(all_items, style) ==
    IF StyleFilter(style) # <<>>
    THEN SelectSeq(all_items, LAMBDA j : j.style = StyleFilter(style))
    ELSE all_items

TotalPagesFloor(total) == Max(1, total \div JOKES_PER_PAGE)

\* page after the try / except: max(1, int(request.args.get("page", 1)))
RequestedPage(page) ==
    IF ~page.given THEN 1
    ELSE IF IntOf(page.text)[1] THEN Max(1, IntOf(page.text)[2])
    ELSE 1

\* max(1, (total + JOKES_PER_PAGE - 1) // JOKES_PER_PAGE)
TotalPages(total) ==
    Max(1, (total + JOKES_PER_PAGE - 1) \div JOKES_PER_PAGE)

\* filtered[start : start + JOKES_PER_PAGE] for a 0-based start
PageSlice(filtered, start) ==
    SubSeq(filtered, start + 1, Min(start + JOKES_PER_PAGE, Len(filtered)))

\* what all_jokes hands to the template for the listing all_items
AllJokesResponse(all_items, style, page) ==
    LET filtered == Filtered(all_items, style)
        total == Len(filtered)
        total_pages == TotalPages(total)
        effective == Min(RequestedPage(page), total_pages)
        page_jokes == PageSlice(filtered, (effective - 1) * JOKES_PER_PAGE)
    IN  [NoResp EXCEPT
           !.route = "list", !.status = 200, !.ok = TRUE,
           !.items = [i \in 1..Len(page_jokes) |-> page_jokes[i].id],
           !.style_filter = StyleFilter(style),
           !.count = total,
           !.page = effective,
           !.total_pages = total_pages]

(***************************************************************************)
(* _get_jokes                                                              *)
(***************************************************************************)
\* file name order: sorted() compares the names f"{stem}.md"
NameLess(a, b) == StrLess(a \o MD_SUFFIX, b \o MD_SUFFIX)

\* sorted(JOKES_DIR.glob("*.md"), reverse=True), as stems
RECURSIVE SortedReverse(_)
SortedReverse(stems) ==
    IF stems = {} THEN <<>>
    ELSE LET top == CHOOSE x \in stems : \A y \in stems \ {x} : NameLess(y, x)
         IN  <<top>> \o SortedReverse(stems \ {top})

\* first statement of _get_jokes: the directory is listed
GetJokesGlob(t) ==
    /\ pc[t] = "glob"
    /\ loc' = [loc EXCEPT ![t].files = SortedReverse(DOMAIN files)]
    /\ pc' = [pc EXCEPT ![t] = "update"]
    /\ UNCHANGED <<now, files, _joke_cache, _joke_cache_count, GITHUB_TOKEN,
                   remote, resp, hist, saveLog, served, putCount,
                   _llm, deployments,
                   login, AUTH_FILE>>

\* a _get_jokes that parses the files on every call
CacheAfterAlwaysParsed(fs) ==
    [i \in 1..Len(fs) |-> _parse_joke_file(fs[i], files[fs[i]])]

\* the cache after the if statement of _get_jokes, for the listed files fs
CacheAfter(fs) ==
    IF Len(fs) # _joke_cache_count
    THEN [i \in 1..Len(fs) |-> _parse_joke_file(fs[i], files[fs[i]])]
    ELSE _joke_cache

CountAfter(fs) ==
    IF Len(fs) # _joke_cache_count THEN Len(fs) ELSE _joke_cache_count

\* the rest of _get_jokes and what its caller does with the result: the
\* second loop of _is_duplicate and the break / continue of api_joke, or the
\* filtering and pagination of all_jokes
GetJokesUpdate(t) ==
    /\ pc[t] = "update"
    /\ _joke_cache' = CacheAfter(loc[t].files)
    /\ _joke_cache_count' = CountAfter(loc[t].files)
    /\ IF loc[t].caller = "joke"
       THEN LET dup == DupOfRecent(loc[t].joke, CacheAfter(loc[t].files))
                attempt == loc[t].attempt
            IN  /\ pc' = [pc EXCEPT ![t] =
                             IF dup THEN AfterContinue(attempt) ELSE "save"]
                /\ loc' = [loc EXCEPT ![t].attempt =
                              IF dup /\ attempt + 1 < MAX_RETRIES
                              THEN attempt + 1 ELSE attempt]
                /\ hist' = [hist EXCEPT ![t].broke = ~dup]
                /\ UNCHANGED resp
       ELSE LET all_items == CacheAfter(loc[t].files)
                filtered == Filtered(all_items, loc[t].style)
            IN  /\ pc' = [pc EXCEPT ![t] = "done"]
                /\ resp' = [resp EXCEPT ![t] =
                               AllJokesResponse(all_items, loc[t].style,
                                                loc[t].page)]
                /\ loc' = [loc EXCEPT ![t].filtered =
                              [i \in 1..Len(filtered) |-> filtered[i].id]]
                /\ UNCHANGED hist
    /\ UNCHANGED <<now, files, GITHUB_TOKEN, remote, saveLog, served, putCount,
                   _llm, deployments,
                   login, AUTH_FILE>>

(***************************************************************************)
(* save_joke and the response of /api/joke                                 *)
(***************************************************************************)
\* JOKES_DIR after (JOKES_DIR / filename).write_text(content)
WriteText(dir, stem, content) ==
    [x \in DOMAIN dir \cup {stem} |-> IF x = stem THEN content ELSE dir[x]]

SaveJoke(t) ==
    /\ pc[t] = "save"
    /\ LET joke_id == JokeId(now, loc[t].joke)
           content == FileContent(loc[t].joke, loc[t].factoid, loc[t].technique)
       IN  /\ files' = WriteText(files, joke_id, content)
           /\ saveLog' = Append(saveLog, [id |-> joke_id, content |-> content])
           /\ resp' = [resp EXCEPT ![t] =
                          [NoResp EXCEPT !.route = "joke", !.status = 200,
                                         !.ok = TRUE, !.joke = loc[t].joke,
                                         !.id = joke_id]]
    /\ hist' = [hist EXCEPT ![t].saves = @ + 1]
    /\ pc' = [pc EXCEPT ![t] = "done"]
    /\ UNCHANGED <<now, _joke_cache, _joke_cache_count, GITHUB_TOKEN, remote,
                   loc, served, putCount,
                   _llm, deployments,
                   login, AUTH_FILE>>

(***************************************************************************)
(* /all-jokes                                                              *)
(***************************************************************************)
\* a request for the listing arrives: all_jokes calls _get_jokes
StartList(t) ==
    /\ FirstFree(t)
    /\ served.other < MaxOtherRequests
    /\ served.joke + served.other < MaxRequests
    /\ served' = [served EXCEPT !.other = @ + 1]
    /\ pc' = [pc EXCEPT ![t] = "glob"]
    /\ loc' = [loc EXCEPT ![t] = [NoLoc EXCEPT !.caller = "list"]]
    /\ UNCHANGED <<now, files, _joke_cache, _joke_cache_count, GITHUB_TOKEN,
                   remote, resp, hist, saveLog, putCount,
                   _llm, deployments,
                   login, AUTH_FILE>>

(***************************************************************************)
(* /api/share/<joke_id>                                                    *)
(***************************************************************************)
IsPrefix(p, s) == Len(p) <= Len(s) /\ SubSeq(s, 1, Len(p)) = p

\* JOKES_DIR.glob(f"{joke_id}*.md"), as stems: the names that start with
\* joke_id and end in ".md"
GlobMatches(dir, joke_id) == {stem \in DOMAIN dir : IsPrefix(joke_id, stem)}

\* the ids a client asks for: ids of stored jokes, a bare timestamp, and an id
\* that no joke has
MISSING_ID == <<"9", "-", "n", "o">>
RequestIds == DOMAIN files \cup {TsStr(1), MISSING_ID}

PERMALINK_PATH == <<"/", "j", "o", "k", "e", "/">>

\* f"{SITE_URL}/joke/{joke_id}"
Permalink(joke_id) == SITE_URL \o PERMALINK_PATH \o joke_id

TokenAssumed == TRUE

\* `if not GITHUB_TOKEN` is false
TokenConfigured == GITHUB_TOKEN # ""

\* api_share up to the PUT: the token check, the glob, matches[0] (glob
\* yields the directory's entries in no particular order) and read_bytes
StartShare(t) ==
    /\ FirstFree(t)
    /\ served.other < MaxOtherRequests
    /\ served.joke + served.other < MaxRequests
    /\ served' = [served EXCEPT !.other = @ + 1]
    /\ \E joke_id \in RequestIds :
         IF ~TokenConfigured
         THEN /\ resp' = [resp EXCEPT ![t] =
                             [NoResp EXCEPT
                                !.route = "share", !.status = 500,
                                !.error = "GITHUB_TOKEN not configured"]]
              /\ pc' = [pc EXCEPT ![t] = "done"]
              /\ loc' = [loc EXCEPT ![t] = [NoLoc EXCEPT !.caller = "share",
                                                         !.joke_id = joke_id]]
         ELSE IF GlobMatches(files, joke_id) = {}
         THEN /\ resp' = [resp EXCEPT ![t] =
                             [NoResp EXCEPT
                                !.route = "share", !.status = 404,
                                !.error = "Joke not found"]]
              /\ pc' = [pc EXCEPT ![t] = "done"]
              /\ loc' = [loc EXCEPT ![t] = [NoLoc EXCEPT !.caller = "share",
                                                         !.joke_id = joke_id]]
         ELSE \E filepath \in GlobMatches(files, joke_id) :
                /\ loc' = [loc EXCEPT ![t] =
                              [NoLoc EXCEPT !.caller = "share",
                                            !.joke_id = joke_id,
                                            !.filepath = filepath,
                                            !.content = files[filepath]]]
                /\ pc' = [pc EXCEPT ![t] = "put"]
                /\ UNCHANGED resp
    /\ UNCHANGED <<now, files, _joke_cache, _joke_cache_count, GITHUB_TOKEN,
                   remote, hist, saveLog, putCount,
                   _llm, deployments,
                   login, AUTH_FILE>>

\* what the external API can answer to a PUT of a file without a sha:
\* created, already exists (or updated), or a refusal
UpstreamStatuses(name) ==
    (IF name \in remote THEN {200, 422} ELSE {201}) \cup {401, 500}

ShareResponseStrict(joke_id, status_code) ==
    IF status_code \in {200, 201}
    THEN [NoResp EXCEPT !.route = "share", !.status = 200, !.ok = TRUE,
                        !.upstream = status_code, !.url = Permalink(joke_id)]
    ELSE [NoResp EXCEPT !.route = "share", !.status = 502,
                        !.error = "GitHub API error",
                        !.upstream = status_code]

\* the response api_share builds from resp.status_code
ShareResponse(joke_id, status_code) ==
    IF status_code \in {200, 201}
    THEN [NoResp EXCEPT !.route = "share", !.status = 200, !.ok = TRUE,
                        !.upstream = status_code, !.url = Permalink(joke_id)]
    ELSE IF status_code = 422
    THEN [NoResp EXCEPT !.route = "share", !.status = 200, !.ok = TRUE,
                        !.upstream = status_code, !.url = Permalink(joke_id)]
    ELSE [NoResp EXCEPT !.route = "share", !.status = 502,
                        !.error = "GitHub API error",
                        !.upstream = status_code]

\* http_requests.put returns and api_share answers
SharePut(t) ==
    /\ pc[t] = "put"
    /\ \E status_code \in UpstreamStatuses(loc[t].filepath) :
         /\ remote' = IF status_code \in {200, 201}
                      THEN remote \cup {loc[t].filepath} ELSE remote
         /\ resp' = [resp EXCEPT ![t] = ShareResponse(loc[t].joke_id, status_code)]
         /\ loc' = [loc EXCEPT ![t].status_code = status_code]
    /\ putCount' = putCount + 1
    /\ pc' = [pc EXCEPT ![t] = "done"]
    /\ UNCHANGED <<now, files, _joke_cache, _joke_cache_count, GITHUB_TOKEN,
                   hist, saveLog, served,
                   _llm, deployments,
                   login, AUTH_FILE>>

\* http_requests.put raises (connection refused, timeout=15 expired); the
\* handler has no try block around it
SharePutRaises(t) ==
    /\ pc[t] = "put"
    /\ resp' = [resp EXCEPT ![t] = InternalServerError("share")]
    /\ putCount' = putCount + 1
    /\ pc' = [pc EXCEPT ![t] = "done"]
    /\ UNCHANGED <<now, files, _joke_cache, _joke_cache_count, GITHUB_TOKEN,
                   remote, loc, hist, saveLog, served,
                   _llm, deployments,
                   login, AUTH_FILE>>

(***************************************************************************)
(* The web server                                                          *)
(***************************************************************************)
\* the response of a finished handler goes out and the thread is free for the
\* next request
Respond(t) ==
    /\ pc[t] = "done"
    /\ pc' = [pc EXCEPT ![t] = "idle"]
    /\ loc' = [loc EXCEPT ![t] = NoLoc]
    /\ resp' = [resp EXCEPT ![t] = NoResp]
    /\ hist' = [hist EXCEPT ![t] = NoHist]
    /\ UNCHANGED <<now, files, _joke_cache, _joke_cache_count, GITHUB_TOKEN,
                   remote, saveLog, served, putCount,
                   _llm, deployments,
                   login, AUTH_FILE>>

(***************************************************************************)
(* Specification                                                           *)
(***************************************************************************)
Next ==
    \/ Tick
    \/ \E t \in Threads :
         \/ StartJoke(t)
         \/ ModelCall(t)
         \/ ModelCallRaises(t)
         \/ GetJokesGlob(t)
         \/ GetJokesUpdate(t)
         \/ SaveJoke(t)
         \/ StartList(t)
         \/ StartShare(t)
         \/ SharePut(t)
         \/ SharePutRaises(t)
         \/ Respond(t)

Spec == Init /\ [][Next]_vars

(***************************************************************************)
(* Properties                                                              *)
(***************************************************************************)
\* thread t has finished a /api/joke request whose model calls all returned
JokeDone(t) == pc[t] = "done" /\ loc[t].caller = "joke" /\ ~hist[t].raised

\* the ids save_joke has returned so far
SavedIds == {saveLog[i].id : i \in 1..Len(saveLog)}

\* an upper bound on the handler steps a /api/joke request still takes: at
\* most three for each model call still allowed, and the save
StepsLeft(t) ==
    LET perCall == 3 * (MAX_RETRIES - hist[t].calls)
    IN  CASE pc[t] = "call" -> perCall + 1
          [] pc[t] = "glob" -> perCall + 3
          [] pc[t] = "update" -> perCall + 2
          [] pc[t] = "save" -> 1
          [] OTHER -> 0

C1_Inv ==
    \A t \in Threads :
        /\ hist[t].calls + (IF hist[t].raised THEN 1 ELSE 0) <= MAX_RETRIES
        /\ pc[t] = "call" => hist[t].calls < MAX_RETRIES
        /\ (loc[t].caller = "joke" /\ pc[t] \in {"glob", "update", "save"})
              => hist[t].calls >= 1 /\ hist[t].saves = 0
        /\ JokeDone(t)
              => /\ hist[t].calls >= 1
                 /\ hist[t].saves = 1
                 /\ resp[t].route = "joke" /\ resp[t].status = 200
                 /\ resp[t].id \in SavedIds

\* every step of a running /api/joke request brings it closer to its end
C1_Step(t) ==
    (loc[t].caller = "joke" /\ pc[t] \in {"call", "glob", "update", "save"}
        /\ <<pc[t], hist[t]>>' # <<pc[t], hist[t]>>)
    => StepsLeft(t)' < StepsLeft(t)

\* C1: every /api/joke request makes at least one and at most MAX_RETRIES
\* model calls (no state lets it make one more); every step of the request
\* (each is guarded by its program point alone) brings it closer to its end,
\* so it terminates, and when its model calls returned it has saved one
\* record and answered with it.
C1_BoundedAttempts ==
    /\ []C1_Inv
    /\ [][\A t \in Threads : C1_Step(t)]_vars

\* a request that used all MAX_RETRIES model calls has answered
C1_Witness ==
    \E t \in Threads :
        JokeDone(t) /\ hist[t].calls = MAX_RETRIES /\ resp[t].route = "joke"

\* C2: if some attempt of a /api/joke request produced non-empty cleaned
\* text, the joke the request saves and returns is non-empty.
C2_NeverEmptyHanded ==
    \A t \in Threads :
        (JokeDone(t) /\ hist[t].nonEmpty) => resp[t].joke # <<>>

\* C3: when all MAX_RETRIES attempts of a /api/joke request were rejected,
\* the request still succeeds: it saves and returns the cleaned output of
\* the last attempt.
C3_LastAttemptUsed ==
    \A t \in Threads :
        (JokeDone(t) /\ hist[t].calls = MAX_RETRIES /\ ~hist[t].broke)
        => /\ resp[t].route = "joke" /\ resp[t].ok /\ resp[t].status = 200
           /\ resp[t].joke = hist[t].last
           /\ \E i \in 1..Len(saveLog) :
                /\ saveLog[i].id = resp[t].id
                /\ saveLog[i].content =
                       FileContent(hist[t].last, loc[t].factoid, loc[t].technique)

\* three rejected attempts, the last of them short but not empty, answered
C3_Witness ==
    \E t \in Threads :
        /\ JokeDone(t) /\ hist[t].calls = MAX_RETRIES /\ ~hist[t].broke
        /\ resp[t].joke # <<>> /\ Len(resp[t].joke) < MIN_JOKE_LEN
        /\ resp[t].ok

\* C4: when attempt k < MAX_RETRIES yields cleaned text that is empty or
\* shorter than MIN_JOKE_LEN, the step raises no error, saves nothing, does
\* not run the duplicate check, and the request's next step is a model call.
C4_ShortOutputRetries ==
    [][\A t \in Threads :
          (/\ pc[t] = "call"
           /\ hist'[t].calls = hist[t].calls + 1
           /\ hist'[t].calls < MAX_RETRIES
           /\ Len(hist'[t].last) < MIN_JOKE_LEN)
          => /\ pc'[t] = "call"
             /\ files' = files /\ saveLog' = saveLog
             /\ ~hist'[t].checked
             /\ _joke_cache' = _joke_cache
             /\ resp'[t] = resp[t]]_vars

\* a request about to make its next model call after a short output
C4_Witness ==
    \E t \in Threads :
        /\ pc[t] = "call" /\ hist[t].calls \in 1..(MAX_RETRIES - 1)
        /\ hist[t].last # <<>> /\ Len(hist[t].last) < MIN_JOKE_LEN
        /\ ~hist[t].checked

\* C5: two different save_joke calls never return the same id.
C5_UniqueIds ==
    \A i, j \in 1..Len(saveLog) : i # j => saveLog[i].id # saveLog[j].id

\* C6: in a listing, of two records with different ids the one saved later
\* comes first.
C6_NewestFirst ==
    \A t \in Threads :
        (pc[t] = "done" /\ resp[t].route = "list")
        => \A i, j \in 1..Len(saveLog) :
              (/\ i < j
               /\ saveLog[i].id # saveLog[j].id
               /\ IndexIn(resp[t].items, saveLog[i].id) > 0
               /\ IndexIn(resp[t].items, saveLog[j].id) > 0)
              => IndexIn(resp[t].items, saveLog[j].id)
                     < IndexIn(resp[t].items, saveLog[i].id)

\* C7: no step changes the body of a joke file or removes the file.
C7_Immutable ==
    [][\A stem \in DOMAIN files :
          stem \in DOMAIN files' /\ files'[stem] = files[stem]]_vars

\* thread t has finished a /api/share request that sent its PUT
ShareSent(t) ==
    pc[t] = "done" /\ loc[t].caller = "share" /\ loc[t].filepath # <<>>

\* C8: with the token configured and the joke on disk, api_share answers
\* ok with the permalink of the requested id when the external API answers
\* 200 or 201 and also when it answers 422, as it does for a file that an
\* earlier share has already uploaded.
C8_ShareIdempotent ==
    \A t \in Threads :
        (ShareSent(t) /\ loc[t].status_code \in {200, 201, 422})
        => /\ resp[t].route = "share" /\ resp[t].ok /\ resp[t].status = 200
           /\ resp[t].url = Permalink(loc[t].joke_id)
           /\ ~resp[t].unhandled

\* a second share of an uploaded file was answered 422 and reported ok
C8_Witness ==
    \E t \in Threads :
        /\ ShareSent(t) /\ loc[t].status_code = 422
        /\ loc[t].filepath \in remote
        /\ resp[t].ok

\* C9: when the PUT raises or is answered with a status other than 200, 201
\* and 422, api_share answers with a failure that carries the upstream
\* status, and no exception escapes the handler.
C9_FailureReported ==
    \A t \in Threads :
        (ShareSent(t) /\ loc[t].status_code \notin {200, 201, 422})
        => /\ ~resp[t].unhandled
           /\ resp[t].route = "share" /\ ~resp[t].ok
           /\ resp[t].upstream = loc[t].status_code
           /\ resp[t].upstream # 0

\* C10: without GITHUB_TOKEN every api_share request, for an id that exists
\* or not, is answered with the configuration error; no request goes to the
\* external API, nothing of the store or the remote repository changes, and
\* the handler returns (the thread goes on to serve later requests).
C10_Inv ==
    GITHUB_TOKEN = ""
    => /\ putCount = 0 /\ remote = {}
       /\ \A t \in Threads :
            /\ pc[t] # "put"
            /\ (pc[t] = "done" /\ loc[t].caller = "share")
                  => /\ resp[t].route = "share" /\ ~resp[t].ok
                     /\ resp[t].status = 500
                     /\ resp[t].error = "GITHUB_TOKEN not configured"
                     /\ ~resp[t].unhandled

C10_Step(t) ==
    (GITHUB_TOKEN = "" /\ pc[t] = "idle" /\ loc'[t].caller = "share")
    => /\ pc'[t] = "done"
       /\ UNCHANGED <<files, _joke_cache, _joke_cache_count, remote, putCount,
                      saveLog,
                   login, AUTH_FILE>>

C10_MissingToken ==
    /\ []C10_Inv
    /\ [][\A t \in Threads : C10_Step(t)]_vars

\* without a token, a share of a stored joke was refused after an earlier
\* share had been refused too
C10_Witness ==
    /\ GITHUB_TOKEN = ""
    /\ served.other = 2
    /\ \E t \in Threads :
         /\ pc[t] = "done" /\ loc[t].caller = "share"
         /\ loc[t].joke_id \in DOMAIN files
         /\ resp[t].status = 500

(***************************************************************************)
(* Lookup of one joke: _load_joke (permalink page, preview image) and      *)
(* api_share, over stores that save_joke has written                       *)
(***************************************************************************)
\* save_joke calls whose files the lookups meet: <<clock, joke>>
LOOKUP_SAVES == {<<1, JOKE_SHORT>>, <<1, <<>>>>, <<2, JOKE_E>>}

\* JOKES_DIR after the save_joke calls of the set saves
StoreOf(saves) ==
    [stem \in {JokeId(sv[1], sv[2]) : sv \in saves} |->
        LET sv == CHOOSE x \in saves : JokeId(x[1], x[2]) = stem
        IN  FileContent(sv[2], <<"f">>, TECHNIQUE_M)]

\* the external repository holds files that some instance has shared: the
\* body of all-jokes/{name}.md there is a body save_joke wrote under that name
RemoteBodies(name) ==
    {FileContent(sv[2], <<"f">>, TECHNIQUE_M) :
        sv \in {x \in LOOKUP_SAVES : JokeId(x[1], x[2]) = name}}

LookupInit ==
    /\ now = 1
    /\ files \in {StoreOf(saves) : saves \in SUBSET LOOKUP_SAVES}
    /\ _joke_cache = <<>>
    /\ _joke_cache_count = -1
    /\ GITHUB_TOKEN \in {"", "token"}
    /\ remote \in SUBSET {JokeId(sv[1], sv[2]) : sv \in LOOKUP_SAVES}
    /\ pc = [t \in Threads |-> "idle"]
    /\ loc = [t \in Threads |-> NoLoc]
    /\ resp = [t \in Threads |-> NoResp]
    /\ hist = [t \in Threads |-> NoHist]
    /\ saveLog = <<>>
    /\ served = [joke |-> 0, other |-> 0]
    /\ putCount = 0
    /\ _llm = None
    /\ deployments = <<RUNNING_DEPLOYMENT>>
    /\ login = NoLogin
    /\ AUTH_FILE = NO_FILE

\* the ids a client asks a page or an image for
LookupIds == RequestIds \cup remote

\* abort(404) of joke_permalink and joke_image
NotFound(route) == [NoResp EXCEPT !.route = route, !.status = 404]

\* the page or image made from the record _load_joke returned
Found(route, joke_id, data) ==
    [NoResp EXCEPT !.route = route, !.status = 200, !.ok = TRUE,
                   !.joke = data.joke, !.id = joke_id]

\* joke_permalink / joke_image up to the GET of _load_joke: the local glob and
\* matches[0] (glob yields the directory's entries in no particular order),
\* and the token check of the fallback
StartLookup(t) ==
    /\ FirstFree(t)
    /\ served.other < MaxOtherRequests
    /\ served.joke + served.other < MaxRequests
    /\ served' = [served EXCEPT !.other = @ + 1]
    /\ \E route \in {"permalink", "image"}, joke_id \in LookupIds :
         IF GlobMatches(files, joke_id) # {}
         THEN \E filepath \in GlobMatches(files, joke_id) :
                /\ loc' = [loc EXCEPT ![t] =
                              [NoLoc EXCEPT !.caller = route,
                                            !.joke_id = joke_id,
                                            !.filepath = filepath,
                                            !.content = files[filepath]]]
                /\ resp' = [resp EXCEPT ![t] =
                               Found(route, joke_id,
                                     _parse_joke_file(filepath, files[filepath]))]
                /\ pc' = [pc EXCEPT ![t] = "done"]
         ELSE /\ loc' = [loc EXCEPT ![t] = [NoLoc EXCEPT !.caller = route,
                                                         !.joke_id = joke_id]]
              /\ IF ~TokenConfigured
                 THEN /\ resp' = [resp EXCEPT ![t] = NotFound(route)]
                      /\ pc' = [pc EXCEPT ![t] = "done"]
                 ELSE /\ pc' = [pc EXCEPT ![t] = "get"]
                      /\ UNCHANGED resp
    /\ UNCHANGED <<now, files, _joke_cache, _joke_cache_count, GITHUB_TOKEN,
                   remote, hist, saveLog, putCount,
                   _llm, deployments,
                   login, AUTH_FILE>>

\* what the external API can answer to the GET of all-jokes/{joke_id}.md
GetStatuses(joke_id) ==
    (IF joke_id \in remote THEN {200} ELSE {404}) \cup {401, 500}

\* http_requests.get returns: the rest of _load_joke and of its caller
LoadJokeGet(t) ==
    /\ pc[t] = "get"
    /\ \E status_code \in GetStatuses(loc[t].joke_id) :
         IF status_code # 200
         THEN /\ resp' = [resp EXCEPT ![t] = NotFound(loc[t].caller)]
              /\ loc' = [loc EXCEPT ![t].status_code = status_code]
         ELSE \E content \in RemoteBodies(loc[t].joke_id) :
                /\ resp' = [resp EXCEPT ![t] =
                               Found(loc[t].caller, loc[t].joke_id,
                                     _parse_joke_file(loc[t].joke_id, content))]
                /\ loc' = [loc EXCEPT ![t].status_code = status_code,
                                      ![t].filepath = loc[t].joke_id,
                                      ![t].content = content]
    /\ pc' = [pc EXCEPT ![t] = "done"]
    /\ UNCHANGED <<now, files, _joke_cache, _joke_cache_count, GITHUB_TOKEN,
                   remote, hist, saveLog, served, putCount,
                   _llm, deployments,
                   login, AUTH_FILE>>

\* http_requests.get raises (connection refused, timeout=10 expired);
\* _load_joke and its callers have no try block around it
LoadJokeGetRaises(t) ==
    /\ pc[t] = "get"
    /\ resp' = [resp EXCEPT ![t] = InternalServerError(loc[t].caller)]
    /\ pc' = [pc EXCEPT ![t] = "done"]
    /\ UNCHANGED <<now, files, _joke_cache, _joke_cache_count, GITHUB_TOKEN,
                   remote, loc, hist, saveLog, served, putCount,
                   _llm, deployments,
                   login, AUTH_FILE>>

LookupNext ==
    \E t \in Threads :
        \/ StartLookup(t)
        \/ LoadJokeGet(t)
        \/ LoadJokeGetRaises(t)
        \/ StartShare(t)
        \/ SharePut(t)
        \/ SharePutRaises(t)
        \/ Respond(t)

LookupSpec == LookupInit /\ [][LookupNext]_vars

\* C11: a lookup (page, image, share) of an id that no record has, in the
\* store or in the external repository, is answered with not-found: 404, no
\* record's text, nothing uploaded.
C11_NotFound ==
    \A t \in Threads :
        (/\ loc[t].caller \in {"permalink", "image", "share"}
         /\ pc[t] \in {"done", "put"}
         /\ loc[t].joke_id \notin DOMAIN files \cup remote
         /\ loc[t].caller = "share" => TokenConfigured)
        => /\ pc[t] = "done"
           /\ resp[t].status = 404
           /\ ~resp[t].ok /\ ~resp[t].unhandled
           /\ resp[t].joke = <<>>
           /\ loc[t].filepath = <<>>

(***************************************************************************)
(* /all-jokes with query arguments, over stores of up to MaxRecords files  *)
(***************************************************************************)
\* number of joke files in the store
MaxRecords == 21

\* a style of files written while the examples file still had a technique
\* that TECHNIQUES no longer has
TECHNIQUE_K == <<"K">>

\* how the styles of the store's files are spread
STYLE_PATTERNS == {"all", "alternate", "none"}

\* the save_joke call that wrote the i-th file of the store (the oldest is
\* the first): 26 one-letter jokes in each second
ListSave(i, pattern) ==
    [time |-> 1 + ((i - 1) \div 26),
     joke |-> <<LOWER_LETTERS[((i - 1) % 26) + 1]>>,
     technique |-> CASE pattern = "all" -> TECHNIQUE_M
                     [] pattern = "none" -> TECHNIQUE_K
                     [] OTHER -> IF i % 2 = 1 THEN TECHNIQUE_M ELSE TECHNIQUE_K]

\* JOKES_DIR after n such calls
ListStore(n, pattern) ==
    [stem \in {JokeId(ListSave(i, pattern).time, ListSave(i, pattern).joke) :
                  i \in 1..n} |->
        LET i == CHOOSE k \in 1..n :
                    JokeId(ListSave(k, pattern).time, ListSave(k, pattern).joke)
                        = stem
        IN  FileContent(ListSave(i, pattern).joke, <<"f">>,
                        ListSave(i, pattern).technique)]

\* [_parse_joke_file(f) for f in files]
RECURSIVE ParsedListing(_, _)
ParsedListing(fs, dir) ==
    IF fs = <<>> THEN <<>>
    ELSE <<_parse_joke_file(Head(fs), dir[Head(fs)])>>
         \o ParsedListing(Tail(fs), dir)

ListInit ==
    /\ now = 1
    /\ \E n \in 0..MaxRecords, pattern \in STYLE_PATTERNS :
         files = ListStore(n, pattern)
    \* an earlier request has listed the store
    /\ _joke_cache = ParsedListing(SortedReverse(DOMAIN files), files)
    /\ _joke_cache_count = Cardinality(DOMAIN files)
    /\ GITHUB_TOKEN = ""
    /\ remote = {}
    /\ pc = [t \in Threads |-> "idle"]
    /\ loc = [t \in Threads |-> NoLoc]
    /\ resp = [t \in Threads |-> NoResp]
    /\ hist = [t \in Threads |-> NoHist]
    /\ saveLog = <<>>
    /\ served = [joke |-> 0, other |-> 0]
    /\ putCount = 0
    /\ _llm = None
    /\ deployments = <<RUNNING_DEPLOYMENT>>
    /\ login = NoLogin
    /\ AUTH_FILE = NO_FILE

\* request.args.get("style", "") of the requests: absent or empty, a known
\* technique (also with a blank before it), a style that is not a technique
LIST_STYLES == {<<>>, TECHNIQUE_M, <<" ">> \o TECHNIQUE_M, TECHNIQUE_K}

\* request.args.get("page") of the requests that give one
LIST_PAGES ==
    {<<"0">>, <<"1">>, <<"2">>, <<"3">>, <<"4">>, <<"-", "1">>, <<"x">>,
     <<"2", ".", "5">>, <<" ", "2">>, <<>>}

\* a request for /all-jokes?style=..&page=.. arrives while no other request
\* is being served: all_jokes calls _get_jokes
StartListArgs(t) ==
    /\ \A u \in Threads : pc[u] = "idle"
    /\ FirstFree(t)
    /\ served.other < MaxOtherRequests
    /\ served.joke + served.other < MaxRequests
    /\ served' = [served EXCEPT !.other = @ + 1]
    /\ pc' = [pc EXCEPT ![t] = "glob"]
    /\ \E style \in LIST_STYLES,
          page \in {[given |-> FALSE, text |-> <<>>]}
                      \cup {[given |-> TRUE, text |-> x] : x \in LIST_PAGES} :
         loc' = [loc EXCEPT ![t] = [NoLoc EXCEPT !.caller = "list",
                                                 !.style = style,
                                                 !.page = page]]
    /\ UNCHANGED <<now, files, _joke_cache, _joke_cache_count, GITHUB_TOKEN,
                   remote, resp, hist, saveLog, putCount,
                   _llm, deployments,
                   login, AUTH_FILE>>

ListNext ==
    \E t \in Threads :
        \/ StartListArgs(t)
        \/ GetJokesGlob(t)
        \/ GetJokesUpdate(t)
        \/ Respond(t)

ListSpec == ListInit /\ [][ListNext]_vars

\* thread t has finished a /all-jokes request
ListDone(t) == pc[t] = "done" /\ resp[t].route = "list"

\* the ids of the listing the requests work on, newest first
ListedIds == [i \in 1..Len(_joke_cache) |-> _joke_cache[i].id]

\* C12: when the style argument (outer blanks aside) is a known technique,
\* the filtered list holds exactly the records of the listing whose style is
\* that technique, each once and in the order of the listing; when it is
\* empty or no known technique, the filtered list is the whole listing.
C12_StyleFilter ==
    \A t \in Threads :
        ListDone(t) =>
            LET known == CHOOSE k \in TECHNIQUES \cup {<<>>} :
                            \/ loc[t].style \in {k, <<" ">> \o k} /\ k # <<>>
                            \/ k = <<>> /\ \A x \in TECHNIQUES :
                                              loc[t].style \notin {x, <<" ">> \o x}
                matching == {i \in 1..Len(_joke_cache) :
                                _joke_cache[i].style = known}
                filtered == loc[t].filtered
            IN  IF known # <<>>
                THEN /\ Len(filtered) = Cardinality(matching)
                     /\ resp[t].count = Cardinality(matching)
                     /\ \A k \in 1..Len(filtered) :
                          \E i \in matching : ListedIds[i] = filtered[k]
                     /\ \A k, l \in 1..Len(filtered) :
                          k < l => IndexIn(ListedIds, filtered[k])
                                       < IndexIn(ListedIds, filtered[l])
                ELSE /\ filtered = ListedIds
                     /\ resp[t].count = Len(_joke_cache)

\* a filter for a known technique kept some records and left others out
C12_Witness ==
    \E t \in Threads :
        /\ ListDone(t)
        /\ loc[t].style = TECHNIQUE_M
        /\ Len(loc[t].filtered) > 1
        /\ Len(loc[t].filtered) < Len(_joke_cache)

\* the least n with n * d >= a, for a >= 0 and d > 0
CeilDiv(a, d) == CHOOSE n \in 0..a : n * d >= a /\ (n = 0 \/ (n - 1) * d < a)

\* C13, as claimed: total_pages is ceil(total / JOKES_PER_PAGE) for every
\* total >= 0.
C13_CeilPages ==
    \A t \in Threads :
        ListDone(t) => resp[t].total_pages = CeilDiv(resp[t].count, JOKES_PER_PAGE)

\* C13, amended: total_pages is ceil(total / JOKES_PER_PAGE) for every
\* total >= 1, and 1 for total = 0.
C13_CeilPagesAtLeastOne ==
    \A t \in Threads :
        ListDone(t) =>
            resp[t].total_pages =
                IF resp[t].count = 0 THEN 1
                ELSE CeilDiv(resp[t].count, JOKES_PER_PAGE)

\* a listing of one record more than a page has two pages
C13_Witness ==
    \E t \in Threads :
        /\ ListDone(t)
        /\ resp[t].count = JOKES_PER_PAGE + 1
        /\ resp[t].total_pages = 2

\* what the page arguments of the requests ask for: <<text, TRUE, n>> for
\* the integer n, <<text, FALSE, 0>> for a text that is no integer
PAGE_MEANING ==
    {<<<<"0">>, TRUE, 0>>, <<<<"1">>, TRUE, 1>>, <<<<"2">>, TRUE, 2>>,
     <<<<"3">>, TRUE, 3>>, <<<<"4">>, TRUE, 4>>, <<<<"-", "1">>, TRUE, -1>>,
     <<<<" ", "2">>, TRUE, 2>>, <<<<"x">>, FALSE, 0>>,
     <<<<"2", ".", "5">>, FALSE, 0>>, <<<<>>, FALSE, 0>>}

\* C14: the effective page lies in 1..total_pages: a requested page above
\* total_pages becomes total_pages, one below 1 or no integer becomes 1, any
\* other stays; the response holds the records at the 0-based positions
\* (page-1)*JOKES_PER_PAGE .. page*JOKES_PER_PAGE-1 of the filtered list
\* that exist, so at most JOKES_PER_PAGE.
C14_PageClamp ==
    \A t \in Threads :
        ListDone(t) =>
            LET m == IF loc[t].page.given
                     THEN CHOOSE x \in PAGE_MEANING : x[1] = loc[t].page.text
                     ELSE <<<<>>, TRUE, 1>>
                page == resp[t].page
                first == (page - 1) * JOKES_PER_PAGE
                size == Max(0, Min(JOKES_PER_PAGE,
                                   Len(loc[t].filtered) - first))
            IN  /\ page \in 1..resp[t].total_pages
                /\ (~m[2] \/ m[3] < 1) => page = 1
                /\ (m[2] /\ m[3] > resp[t].total_pages)
                      => page = resp[t].total_pages
                /\ (m[2] /\ m[3] \in 1..resp[t].total_pages) => page = m[3]
                /\ Len(resp[t].items) = size
                /\ size <= JOKES_PER_PAGE
                /\ \A k \in 1..size :
                      resp[t].items[k] = loc[t].filtered[first + k]

\* a page beyond the last was asked for and the last, partly filled, returned
C14_Witness ==
    \E t \in Threads :
        /\ ListDone(t)
        /\ loc[t].page = [given |-> TRUE, text |-> <<"4">>]
        /\ resp[t].page = 2 /\ resp[t].total_pages = 2
        /\ Len(resp[t].items) = 1

(***************************************************************************)
(* _clean_joke called on its own, and on its own result                    *)
(***************************************************************************)
\* number of pieces a model output is put together from
MaxTokens == 5

\* the pieces: the two delimiters, a letter, blanks, a quote
CLEAN_TOKENS == {THINK_OPEN, THINK_CLOSE, <<"a">>, <<" ">>, <<"\n">>, <<"\"">>}

RECURSIVE Concat(_)
Concat(pieces) ==
    IF pieces = <<>> THEN <<>> ELSE Head(pieces) \o Concat(Tail(pieces))

\* the raw texts _clean_joke is called with
CleanInputs ==
    {Concat(pieces) :
        pieces \in UNION {[1..n -> CLEAN_TOKENS] : n \in 0..MaxTokens}}

CleanInit == Init /\ GITHUB_TOKEN = ""

\* _clean_joke(raw)
CallCleanJoke(t) ==
    /\ \A u \in Threads : pc[u] = "idle"
    /\ FirstFree(t)
    /\ \E raw \in CleanInputs :
         /\ loc' = [loc EXCEPT ![t] = [NoLoc EXCEPT !.caller = "clean",
                                                    !.content = raw]]
         /\ resp' = [resp EXCEPT ![t] =
                        [NoResp EXCEPT !.route = "clean",
                                       !.joke = _clean_joke(raw)]]
    /\ hist' = [hist EXCEPT ![t].calls = 1]
    /\ pc' = [pc EXCEPT ![t] = "done"]
    /\ UNCHANGED <<now, files, _joke_cache, _joke_cache_count, GITHUB_TOKEN,
                   remote, saveLog, served, putCount,
                   _llm, deployments,
                   login, AUTH_FILE>>

\* _clean_joke applied to what it returned
CleanAgain(t) ==
    /\ pc[t] = "done"
    /\ loc[t].caller = "clean"
    /\ hist[t].calls = 1
    /\ hist' = [hist EXCEPT ![t].calls = 2, ![t].last = resp[t].joke]
    /\ resp' = [resp EXCEPT ![t].joke = _clean_joke(resp[t].joke)]
    /\ UNCHANGED <<now, files, _joke_cache, _joke_cache_count, GITHUB_TOKEN,
                   remote, pc, loc, saveLog, served, putCount,
                   _llm, deployments,
                   login, AUTH_FILE>>

CleanNext ==
    \E t \in Threads :
        \/ CallCleanJoke(t)
        \/ CleanAgain(t)
        \/ Respond(t)

CleanSpec == CleanInit /\ [][CleanNext]_vars

\* thread t holds _clean_joke(loc[t].content) in resp[t].joke
Cleaned1(t) == loc[t].caller = "clean" /\ hist[t].calls = 1

\* C15: _clean_joke(_clean_joke(x)) = _clean_joke(x) for every text x.
C15_Idempotent ==
    \A t \in Threads :
        (loc[t].caller = "clean" /\ hist[t].calls = 2)
        => resp[t].joke = hist[t].last

\* the position of the first </think> after a <think> that opens the text,
\* 0 when the text has no such shape
FirstClose(raw) ==
    IF MatchesAt(raw, 1, THINK_OPEN)
    THEN Find(raw, THINK_CLOSE, 1 + Len(THINK_OPEN))
    ELSE 0

\* the text after that </think>
AfterClose(raw) ==
    SubSeq(raw, FirstClose(raw) + Len(THINK_CLOSE), Len(raw))

\* C16, as claimed: for raw = "<think>" + anything + "</think>" + X, with
\* no "</think>" in anything, _clean_joke(raw) = X, whatever X is.
C16_PairedGivesX ==
    \A t \in Threads :
        (Cleaned1(t) /\ FirstClose(loc[t].content) # 0)
        => resp[t].joke = AfterClose(loc[t].content)

\* C16, amended: for such raw whose X holds no "<think>", _clean_joke(raw)
\* is X without its outer whitespace and surrounding quotes (X itself when
\* it has none).
C16_PairedGivesStrippedX ==
    \A t \in Threads :
        (/\ Cleaned1(t)
         /\ FirstClose(loc[t].content) # 0
         /\ Find(AfterClose(loc[t].content), THINK_OPEN, 1) = 0)
        => LET X == AfterClose(loc[t].content)
           IN  /\ resp[t].joke = StripSpace(StripChar(StripSpace(X), "\""))
               /\ (X # <<>> /\ {X[1], X[Len(X)]} \cap {" ", "\n", "\""} = {})
                     => resp[t].joke = X

\* a block with a line break in it, a blank after it, then text that is kept
C16_Witness ==
    \E t \in Threads :
        /\ Cleaned1(t)
        /\ loc[t].content =
               THINK_OPEN \o <<"\n">> \o THINK_CLOSE \o <<" ", "a">>
        /\ resp[t].joke = <<"a">>

\* the position of the <think> that is left open: the first one of the text,
\* or the first one after the block that opens the text; 0 when there is none
\* or a </think> follows it
OpenTail(raw) ==
    LET from == IF FirstClose(raw) # 0
                THEN FirstClose(raw) + Len(THINK_CLOSE) ELSE 1
        p == Find(raw, THINK_OPEN, from)
    IN  IF p # 0 /\ Find(raw, THINK_CLOSE, p + Len(THINK_OPEN)) = 0
        THEN p ELSE 0

\* the text X before it: from the start, or from the end of the first block
BeforeOpenTail(raw) ==
    SubSeq(raw,
           IF FirstClose(raw) # 0 THEN FirstClose(raw) + Len(THINK_CLOSE) ELSE 1,
           OpenTail(raw) - 1)

\* C17, as claimed: _clean_joke(X + "<think>" + trailing) = X and
\* _clean_joke("<think>a</think>" + X + "<think>b") = X, where no "</think>"
\* follows the last "<think>".
C17_UnpairedGivesX ==
    \A t \in Threads :
        (Cleaned1(t) /\ OpenTail(loc[t].content) # 0)
        => resp[t].joke = BeforeOpenTail(loc[t].content)

\* C17, amended: in both shapes the result is X without its outer
\* whitespace and surrounding quotes (X itself when it has none); nothing
\* from the open "<think>" on is kept.
C17_UnpairedGivesStrippedX ==
    \A t \in Threads :
        (Cleaned1(t) /\ OpenTail(loc[t].content) # 0)
        => LET X == BeforeOpenTail(loc[t].content)
           IN  /\ resp[t].joke = StripSpace(StripChar(StripSpace(X), "\""))
               /\ (X # <<>> /\ {X[1], X[Len(X)]} \cap {" ", "\n", "\""} = {})
                     => resp[t].joke = X

\* a block, text, and an open "<think>" with text after it: the text is kept
C17_Witness ==
    \E t \in Threads :
        /\ Cleaned1(t)
        /\ loc[t].content =
               THINK_OPEN \o THINK_CLOSE \o <<"a">> \o THINK_OPEN \o <<"a">>
        /\ resp[t].joke = <<"a">>

(***************************************************************************)
(* _is_duplicate called on its own, over stores of up to MaxStored files   *)
(***************************************************************************)
\* number of joke files in the store
MaxStored == 51

\* the save_joke call that wrote the i-th file of the store: the oldest file
\* holds the joke "0" (its name sorts before all others), the later ones the
\* one-letter jokes of ListSave
DupSave(i) ==
    IF i = 1
    THEN [time |-> 1, joke |-> <<"0">>, technique |-> TECHNIQUE_M]
    ELSE ListSave(i - 1, "all")

\* JOKES_DIR after n such calls
DupStore(n) ==
    [stem \in {JokeId(DupSave(i).time, DupSave(i).joke) : i \in 1..n} |->
        LET i == CHOOSE k \in 1..n :
                    JokeId(DupSave(k).time, DupSave(k).joke) = stem
        IN  FileContent(DupSave(i).joke, <<"f">>, DupSave(i).technique)]

\* the sizes of the stores: nearly empty ones, and those around RECENT_WINDOW
StoredCounts == {0, 1, 2, 3} \cup ((MaxStored - 3)..MaxStored)

DupInit ==
    /\ now = 1
    /\ \E n \in StoredCounts : files = DupStore(n)
    \* an earlier request has listed the store
    /\ _joke_cache = ParsedListing(SortedReverse(DOMAIN files), files)
    /\ _joke_cache_count = Cardinality(DOMAIN files)
    /\ GITHUB_TOKEN = ""
    /\ remote = {}
    /\ pc = [t \in Threads |-> "idle"]
    /\ loc = [t \in Threads |-> NoLoc]
    /\ resp = [t \in Threads |-> NoResp]
    /\ hist = [t \in Threads |-> NoHist]
    /\ saveLog = <<>>
    /\ served = [joke |-> 0, other |-> 0]
    /\ putCount = 0
    /\ _llm = None
    /\ deployments = <<RUNNING_DEPLOYMENT>>
    /\ login = NoLogin
    /\ AUTH_FILE = NO_FILE

\* the jokes _is_duplicate is called with: the oldest joke of the store, a
\* stored joke in both cases, letters, copies of an example, other texts
DupInputs ==
    {<<"0">>, <<"a">>, <<"A">>, <<"b">>, <<"B">>, <<"c">>, <<"w">>, <<"x">>,
     <<"X">>, <<"y">>, <<"Z">>, <<"1">>, EXAMPLE_1, EXAMPLE_2, JOKE_E,
     JOKE_SHORT, JOKE_A, JOKE_A2, <<>>}

\* _is_duplicate(joke), with the call of _get_jokes it makes when no example
\* is similar
CallIsDuplicate(t) ==
    /\ \A u \in Threads : pc[u] = "idle"
    /\ FirstFree(t)
    /\ LET fs == SortedReverse(DOMAIN files)
       IN  \E joke \in DupInputs :
             /\ loc' = [loc EXCEPT ![t] = [NoLoc EXCEPT !.caller = "is_duplicate",
                                                        !.joke = joke]]
             /\ IF DupOfExample(joke)
                THEN /\ resp' = [resp EXCEPT ![t] =
                                   [NoResp EXCEPT !.route = "is_duplicate",
                                                  !.ok = TRUE]]
                     /\ UNCHANGED <<_joke_cache, _joke_cache_count>>
                ELSE /\ resp' = [resp EXCEPT ![t] =
                                   [NoResp EXCEPT
                                      !.route = "is_duplicate",
                                      !.ok = DupOfRecent(joke, CacheAfter(fs))]]
                     /\ _joke_cache' = CacheAfter(fs)
                     /\ _joke_cache_count' = CountAfter(fs)
    /\ pc' = [pc EXCEPT ![t] = "done"]
    /\ UNCHANGED <<now, files, GITHUB_TOKEN, remote, hist, saveLog, served,
                   putCount,
                   _llm, deployments,
                   login, AUTH_FILE>>

DupNext ==
    \E t \in Threads :
        \/ CallIsDuplicate(t)
        \/ Respond(t)

DupSpec == DupInit /\ [][DupNext]_vars

\* thread t holds _is_duplicate(loc[t].joke) in resp[t].ok
DupCalled(t) == pc[t] = "done" /\ loc[t].caller = "is_duplicate"

\* the texts of the first RECENT_WINDOW records of the listing
WindowTexts ==
    {_joke_cache[i].joke : i \in 1..Min(RECENT_WINDOW, Len(_joke_cache))}

\* a and b are the same text when letter case is ignored
SameIgnoringCase(a, b) ==
    /\ Len(a) = Len(b)
    /\ \A i \in 1..Len(a) :
          \/ a[i] = b[i]
          \/ /\ IndexIn(LOWER_LETTERS \o UPPER_LETTERS, a[i]) > 0
             /\ IndexIn(LOWER_LETTERS \o UPPER_LETTERS, b[i]) > 0
             /\ (IndexIn(LOWER_LETTERS \o UPPER_LETTERS, a[i])
                    - IndexIn(LOWER_LETTERS \o UPPER_LETTERS, b[i])) % 26 = 0

\* a and b have a character in common when letter case is ignored
ShareCharacter(a, b) ==
    \E i \in 1..Len(a), j \in 1..Len(b) : SameIgnoringCase(<<a[i]>>, <<b[j]>>)

\* C18: _is_duplicate(x) is true when x is, letter case aside, an example
\* or the text of one of the first RECENT_WINDOW records of the listing;
\* and when it is true, x has a character in common with an example or with
\* one of those texts, so a record further down the listing, however like x,
\* does not make it true.
C18_ReflexiveWindow ==
    \A t \in Threads :
        DupCalled(t) =>
            LET x == loc[t].joke
            IN  /\ (\E y \in ALL_EXAMPLES \cup WindowTexts : SameIgnoringCase(x, y))
                      => resp[t].ok
                /\ resp[t].ok
                      => \E y \in ALL_EXAMPLES \cup WindowTexts : ShareCharacter(x, y)

\* the oldest joke is the last of the RECENT_WINDOW records and is found
C18_Witness ==
    \E t \in Threads :
        /\ DupCalled(t)
        /\ Len(_joke_cache) = RECENT_WINDOW
        /\ _joke_cache[RECENT_WINDOW].joke = loc[t].joke
        /\ resp[t].ok

(***************************************************************************)
(* save_joke called on its own, followed by _get_jokes                     *)
(***************************************************************************)
\* number of save_joke calls in a behaviour
MaxSaves == 2

\* the jokes save_joke is called with, all of them results of _clean_joke:
\* the empty one and a short one (the last attempt is saved as it is), one of
\* two lines, and longer ones
SaveInputs ==
    {<<>>, JOKE_SHORT, <<"a", "\n", "b">>, JOKE_E, JOKE_A, JOKE_A2}

\* save_joke(joke, factoid, technique), and the call of _get_jokes after it
CallSaveJoke(t) ==
    /\ \A u \in Threads : pc[u] = "idle"
    /\ FirstFree(t)
    /\ Len(saveLog) < MaxSaves
    /\ \E joke \in SaveInputs, factoid \in FACTOIDS, technique \in TECHNIQUES :
         LET joke_id == JokeId(now, joke)
             content == FileContent(joke, factoid, technique)
         IN  /\ files' = WriteText(files, joke_id, content)
             /\ saveLog' = Append(saveLog, [id |-> joke_id, content |-> content])
             /\ loc' = [loc EXCEPT ![t] =
                           [NoLoc EXCEPT !.caller = "save", !.joke = joke,
                                         !.factoid = factoid,
                                         !.technique = technique,
                                         !.joke_id = joke_id]]
    /\ pc' = [pc EXCEPT ![t] = "glob"]
    /\ UNCHANGED <<now, _joke_cache, _joke_cache_count, GITHUB_TOKEN, remote,
                   resp, hist, served, putCount,
                   _llm, deployments,
                   login, AUTH_FILE>>

SaveNext ==
    \/ Tick
    \/ \E t \in Threads :
         \/ CallSaveJoke(t)
         \/ GetJokesGlob(t)
         \/ GetJokesUpdate(t)
         \/ Respond(t)

SaveSpec == CleanInit /\ [][SaveNext]_vars

\* C19: after save_joke(joke, factoid, technique) returned an id, the file
\* of that id parses back (_parse_joke_file) to a record with that id, that
\* joke and the technique as style, and the listing holds that record.
C19_RoundTrip ==
    \A t \in Threads :
        (pc[t] = "done" /\ loc[t].caller = "save")
        => LET saved == [id |-> loc[t].joke_id, joke |-> loc[t].joke,
                         style |-> loc[t].technique]
           IN  /\ loc[t].joke_id \in DOMAIN files
               /\ _parse_joke_file(loc[t].joke_id, files[loc[t].joke_id]) = saved
               /\ \E i \in 1..Len(_joke_cache) : _joke_cache[i] = saved

(***************************************************************************)
(* The acceptance gate of /api/joke                                        *)
(***************************************************************************)
\* what holds of a request that left the loop by `break`, and of a finished
\* request that made fewer than MAX_RETRIES model calls
C20_Inv ==
    \A t \in Threads :
        /\ (loc[t].caller = "joke" /\ hist[t].broke)
              => /\ pc[t] \in {"save", "done"}
                 /\ hist[t].checked
                 /\ loc[t].joke = hist[t].last
        /\ (JokeDone(t) /\ hist[t].calls < MAX_RETRIES)
              => /\ hist[t].broke
                 /\ resp[t].joke = hist[t].last
                 /\ Len(resp[t].joke) >= MIN_JOKE_LEN
                 /\ \A ex \in ALL_EXAMPLES : ~Similar(resp[t].joke, ex)

\* the step that ends _is_duplicate: the loop is left for save_joke exactly
\* when no record of the window of the listing _get_jokes returned is
\* similar, and only for a joke of at least MIN_JOKE_LEN characters
C20_Step(t) ==
    (pc[t] = "update" /\ loc[t].caller = "joke" /\ pc'[t] # pc[t])
    => LET window == 1..Min(RECENT_WINDOW, Len(_joke_cache'))
           passed == \A i \in window : ~Similar(loc[t].joke, _joke_cache'[i].joke)
       IN  /\ Len(loc[t].joke) >= MIN_JOKE_LEN
           /\ \A ex \in ALL_EXAMPLES : ~Similar(loc[t].joke, ex)
           /\ passed => pc'[t] = "save" /\ hist'[t].broke
           /\ (~passed /\ hist[t].calls < MAX_RETRIES)
                 => pc'[t] = "call" /\ ~hist'[t].broke /\ files' = files

\* C20: a /api/joke request that saves after fewer than MAX_RETRIES model
\* calls saves a joke of at least MIN_JOKE_LEN characters that no example and,
\* when _is_duplicate listed the store, no record of the listing's window was
\* similar to; the first attempt that passes both checks leaves the loop for
\* save_joke, and no model call follows it.
C20_AcceptanceGate ==
    /\ []C20_Inv
    /\ [][\A t \in Threads : C20_Step(t)]_vars

\* the second attempt was accepted after the first had been rejected
C20_Witness ==
    \E t \in Threads :
        /\ JokeDone(t) /\ hist[t].calls = 2 /\ hist[t].broke
        /\ Len(resp[t].joke) >= MIN_JOKE_LEN
        /\ resp[t].ok

(***************************************************************************)
(* _get_jokes called one call at a time, between calls of save_joke        *)
(***************************************************************************)
\* _get_jokes()
CallGetJokes(t) ==
    /\ \A u \in Threads : pc[u] = "idle"
    /\ FirstFree(t)
    /\ served.other < MaxOtherRequests
    /\ served' = [served EXCEPT !.other = @ + 1]
    /\ pc' = [pc EXCEPT ![t] = "glob"]
    /\ loc' = [loc EXCEPT ![t] = [NoLoc EXCEPT !.caller = "cache"]]
    /\ UNCHANGED <<now, files, _joke_cache, _joke_cache_count, GITHUB_TOKEN,
                   remote, resp, hist, saveLog, putCount,
                   _llm, deployments,
                   login, AUTH_FILE>>

CacheNext ==
    \/ Tick
    \/ \E t \in Threads :
         \/ CallSaveJoke(t)
         \/ CallGetJokes(t)
         \/ GetJokesGlob(t)
         \/ GetJokesUpdate(t)
         \/ Respond(t)

CacheSpec == CleanInit /\ [][CacheNext]_vars

\* the if statement of one _get_jokes call and the list it returns
C21_Step(t) ==
    (pc[t] = "update" /\ pc'[t] # "update")
    => LET count == Cardinality(DOMAIN files)
           parsed == ParsedListing(SortedReverse(DOMAIN files), files)
       IN  /\ count # _joke_cache_count
                 => _joke_cache' = parsed /\ _joke_cache_count' = count
           /\ count = _joke_cache_count
                 => _joke_cache' = _joke_cache /\ UNCHANGED _joke_cache_count
           /\ resp'[t].items =
                 [i \in 1..Len(_joke_cache') |-> _joke_cache'[i].id]

\* what holds when a _get_jokes call has returned
C21_Inv ==
    \A t \in Threads :
        pc[t] = "done"
        => /\ Len(_joke_cache) = _joke_cache_count
           /\ _joke_cache_count = Cardinality(DOMAIN files)

\* C21: a _get_jokes call parses the directory and replaces the cache and
\* the count exactly when the number of joke files differs from
\* _joke_cache_count, which is so on the first call (the count starts at
\* -1); with an unchanged count it returns the cached list as it was.  With
\* one call at a time, after every call the cached list is as long as the
\* cached count, the number of files.
C21_CacheRule ==
    /\ []C21_Inv
    /\ [][\A t \in Threads : C21_Step(t)]_vars

\* a second save_joke overwrote the only file, and the _get_jokes call after
\* it returned the list parsed before the overwrite
C21_Witness ==
    \E t \in Threads :
        /\ pc[t] = "done"
        /\ Len(saveLog) = 2
        /\ saveLog[1].id = saveLog[2].id
        /\ saveLog[1].content # saveLog[2].content
        /\ _joke_cache_count = 1
        /\ _joke_cache = <<_parse_joke_file(saveLog[1].id, saveLog[1].content)>>

(***************************************************************************)
(* save_joke and _get_jokes run by request threads at the same time, with  *)
(* the two assignments of _get_jokes as separate steps, and a _get_jokes   *)
(* call that runs on its own once the threads are idle                     *)
(***************************************************************************)
STALE_SAVES == {JOKE_E, JOKE_A, JOKE_A2}

\* the call after the in-flight ones: no other call runs beside it
NoNextCall == \A u \in Threads : loc[u].caller # "next"

\* save_joke(joke, factoid, technique) in a request thread
StartSaveJoke(t) ==
    /\ FirstFree(t)
    /\ NoNextCall
    /\ Len(saveLog) < MaxSaves
    /\ \E joke \in STALE_SAVES, factoid \in FACTOIDS, technique \in TECHNIQUES :
         LET joke_id == JokeId(now, joke)
             content == FileContent(joke, factoid, technique)
         IN  /\ files' = WriteText(files, joke_id, content)
             /\ saveLog' = Append(saveLog, [id |-> joke_id, content |-> content])
             /\ loc' = [loc EXCEPT ![t] =
                           [NoLoc EXCEPT !.caller = "save", !.joke = joke,
                                         !.factoid = factoid,
                                         !.technique = technique,
                                         !.joke_id = joke_id]]
    /\ pc' = [pc EXCEPT ![t] = "done"]
    /\ UNCHANGED <<now, _joke_cache, _joke_cache_count, GITHUB_TOKEN, remote,
                   resp, hist, served, putCount,
                   _llm, deployments,
                   login, AUTH_FILE>>

\* _get_jokes() in a request thread
StartGetJokes(t) ==
    /\ FirstFree(t)
    /\ NoNextCall
    /\ served.other < MaxOtherRequests
    /\ served' = [served EXCEPT !.other = @ + 1]
    /\ pc' = [pc EXCEPT ![t] = "glob"]
    /\ loc' = [loc EXCEPT ![t] = [NoLoc EXCEPT !.caller = "get"]]
    /\ UNCHANGED <<now, files, _joke_cache, _joke_cache_count, GITHUB_TOKEN,
                   remote, resp, hist, saveLog, putCount,
                   _llm, deployments,
                   login, AUTH_FILE>>

\* _get_jokes() once every thread is idle
NextGetJokes(t) ==
    /\ \A u \in Threads : pc[u] = "idle"
    /\ FirstFree(t)
    /\ pc' = [pc EXCEPT ![t] = "glob"]
    /\ loc' = [loc EXCEPT ![t] = [NoLoc EXCEPT !.caller = "next"]]
    /\ UNCHANGED <<now, files, _joke_cache, _joke_cache_count, GITHUB_TOKEN,
                   remote, resp, hist, saveLog, served, putCount,
                   _llm, deployments,
                   login, AUTH_FILE>>

\* what _get_jokes returns: the list _joke_cache names at the return
GetJokesReturn(cache) ==
    [NoResp EXCEPT !.route = "get_jokes", !.ok = TRUE,
                   !.items = [i \in 1..Len(cache) |-> cache[i].id],
                   !.count = Len(cache)]

\* the if of _get_jokes and the first assignment of its body; with an
\* unchanged count, the return
GetJokesAssignCache(t) ==
    /\ pc[t] = "update"
    /\ LET fs == loc[t].files
       IN  IF Len(fs) # _joke_cache_count
           THEN /\ _joke_cache' = ParsedListing(fs, files)
                /\ pc' = [pc EXCEPT ![t] = "count"]
                /\ UNCHANGED resp
           ELSE /\ pc' = [pc EXCEPT ![t] = "done"]
                /\ resp' = [resp EXCEPT ![t] = GetJokesReturn(_joke_cache)]
                /\ UNCHANGED _joke_cache
    /\ UNCHANGED <<now, files, _joke_cache_count, GITHUB_TOKEN, remote, loc,
                   hist, saveLog, served, putCount,
                   _llm, deployments,
                   login, AUTH_FILE>>

\* the second assignment and the return
GetJokesAssignCount(t) ==
    /\ pc[t] = "count"
    /\ _joke_cache_count' = Len(loc[t].files)
    /\ pc' = [pc EXCEPT ![t] = "done"]
    /\ resp' = [resp EXCEPT ![t] = GetJokesReturn(_joke_cache)]
    /\ UNCHANGED <<now, files, _joke_cache, GITHUB_TOKEN, remote, loc, hist,
                   saveLog, served, putCount,
                   _llm, deployments,
                   login, AUTH_FILE>>

StaleNext ==
    \/ Tick
    \/ \E t \in Threads :
         \/ StartSaveJoke(t)
         \/ StartGetJokes(t)
         \/ NextGetJokes(t)
         \/ GetJokesGlob(t)
         \/ GetJokesAssignCache(t)
         \/ GetJokesAssignCount(t)
         \/ Respond(t)

StaleSpec == CleanInit /\ [][StaleNext]_vars

\* C22: after any interleaving of save_joke and _get_jokes calls of request
\* threads, the _get_jokes call made once all of them have returned returns
\* the list of the joke files on disk: a record for every file, parsed from
\* the file's current content.
C22_SelfCorrecting ==
    \A t \in Threads :
        (pc[t] = "done" /\ loc[t].caller = "next")
        => /\ _joke_cache = ParsedListing(SortedReverse(DOMAIN files), files)
           /\ resp[t].items = SortedReverse(DOMAIN files)

(***************************************************************************)
(* The quotes around a model output                                        *)
(***************************************************************************)
\* C23: for a text t without delimiters that begins and ends with a
\* double-quote character, _clean_joke of t put between two double-quote
\* characters is t: one layer of quotes is removed and t keeps its own.
C23_OneQuoteLayer ==
    \A t \in Threads :
        Cleaned1(t)
        => LET raw == loc[t].content
               inner == SubSeq(raw, 2, Len(raw) - 1)
           IN  (/\ Len(raw) >= 3
                /\ raw[1] = "\"" /\ raw[Len(raw)] = "\""
                /\ inner[1] = "\"" /\ inner[Len(inner)] = "\""
                /\ \A i \in 1..Len(raw) : raw[i] # "<")
               => resp[t].joke = inner

(***************************************************************************)
(* Which file a requested id resolves to                                   *)
(***************************************************************************)
\* C24: the file api_share uploads, and the file whose record _load_joke
\* returns from the store, for a requested joke_id has exactly that id as
\* its filename stem, also when other stored ids begin with joke_id.
C24_ExactId ==
    \A t \in Threads :
        (/\ loc[t].caller \in {"share", "permalink", "image"}
         /\ loc[t].filepath \in DOMAIN files)
        => loc[t].filepath = loc[t].joke_id

(***************************************************************************)
(* _get_llm: the first /api/joke requests of a process                     *)
(***************************************************************************)
\* a deployment of an earlier process that no longer runs
STOPPED_DEPLOYMENT == [state |-> "Stopped", made |-> "earlier"]

\* what client.list_deployments() lists when the process starts
STARTING_LISTS ==
    {<<>>, <<RUNNING_DEPLOYMENT>>, <<STOPPED_DEPLOYMENT>>,
     <<STOPPED_DEPLOYMENT, RUNNING_DEPLOYMENT>>}

LlmInit ==
    /\ now = 1
    /\ files = [x \in {} |-> <<>>]
    /\ _joke_cache = <<>>
    /\ _joke_cache_count = -1
    /\ GITHUB_TOKEN = ""
    /\ remote = {}
    /\ pc = [t \in Threads |-> "idle"]
    /\ loc = [t \in Threads |-> NoLoc]
    /\ resp = [t \in Threads |-> NoResp]
    /\ hist = [t \in Threads |-> NoHist]
    /\ saveLog = <<>>
    /\ served = [joke |-> 0, other |-> 0]
    /\ putCount = 0
    /\ _llm = None
    /\ deployments \in STARTING_LISTS
    /\ login = NoLogin
    /\ AUTH_FILE = NO_FILE

\* a /api/joke request arrives and reaches its call of _get_llm
StartJokeLlm(t) ==
    /\ FirstFree(t)
    /\ served.joke < MaxJokeRequests
    /\ served' = [served EXCEPT !.joke = @ + 1]
    /\ pc' = [pc EXCEPT ![t] = "llm"]
    /\ loc' = [loc EXCEPT ![t] = [NoLoc EXCEPT !.caller = "llm"]]
    /\ UNCHANGED <<now, files, _joke_cache, _joke_cache_count, GITHUB_TOKEN,
                   remote, resp, hist, saveLog, putCount, _llm, deployments,
                   login, AUTH_FILE>>

\* _get_llm has returned the client; the request goes on with it
LlmReturned(client) == [NoResp EXCEPT !.route = "joke", !.upstream = client]

\* `if _llm is not None: return _llm`
GetLlmCheck(t) ==
    /\ pc[t] = "llm"
    /\ IF _llm # None
       THEN /\ pc' = [pc EXCEPT ![t] = "done"]
            /\ loc' = [loc EXCEPT ![t].client = _llm]
            /\ resp' = [resp EXCEPT ![t] = LlmReturned(_llm)]
       ELSE /\ pc' = [pc EXCEPT ![t] = "list"]
            /\ UNCHANGED <<loc, resp>>
    /\ UNCHANGED <<now, files, _joke_cache, _joke_cache_count, GITHUB_TOKEN,
                   remote, hist, saveLog, served, putCount, _llm, deployments,
                   login, AUTH_FILE>>

\* BasilicaClient(), the loop over client.list_deployments().deployments and
\* `if deployment is None`
GetLlmList(t) ==
    /\ pc[t] = "list"
    /\ loc' = [loc EXCEPT ![t].deployment = FirstActive(deployments)]
    /\ pc' = [pc EXCEPT ![t] =
                 IF FirstActive(deployments) = None THEN "deploy" ELSE "set"]
    /\ UNCHANGED <<now, files, _joke_cache, _joke_cache_count, GITHUB_TOKEN,
                   remote, resp, hist, saveLog, served, putCount, _llm,
                   deployments,
                   login, AUTH_FILE>>

\* client.deploy_vllm(...) is called: the service starts a deployment, which
\* takes minutes to come up
GetLlmDeploy(t) ==
    /\ pc[t] = "deploy"
    /\ deployments' = Append(deployments, [state |-> "Pending", made |-> "here"])
    /\ loc' = [loc EXCEPT ![t].deployment = Len(deployments) + 1]
    /\ pc' = [pc EXCEPT ![t] = "ready"]
    /\ UNCHANGED <<now, files, _joke_cache, _joke_cache_count, GITHUB_TOKEN,
                   remote, resp, hist, saveLog, served, putCount, _llm,
                   login, AUTH_FILE>>

\* client.deploy_vllm(...) returns the deployment, which is up
GetLlmDeployReady(t) ==
    /\ pc[t] = "ready"
    /\ deployments' = [deployments EXCEPT ![loc[t].deployment].state = "Active"]
    /\ pc' = [pc EXCEPT ![t] = "set"]
    /\ UNCHANGED <<now, files, _joke_cache, _joke_cache_count, GITHUB_TOKEN,
                   remote, loc, resp, hist, saveLog, served, putCount, _llm,
                   login, AUTH_FILE>>

\* `_llm = OpenAI(base_url=...)` and `return _llm`
GetLlmSet(t) ==
    /\ pc[t] = "set"
    /\ _llm' = loc[t].deployment
    /\ loc' = [loc EXCEPT ![t].client = loc[t].deployment]
    /\ resp' = [resp EXCEPT ![t] = LlmReturned(loc[t].deployment)]
    /\ pc' = [pc EXCEPT ![t] = "done"]
    /\ UNCHANGED <<now, files, _joke_cache, _joke_cache_count, GITHUB_TOKEN,
                   remote, hist, saveLog, served, putCount, deployments,
                   login, AUTH_FILE>>

\* a call of the deployment service raises (no credentials, service down);
\* neither _get_llm nor api_joke has a try block
GetLlmRaises(t) ==
    /\ pc[t] \in {"list", "deploy"}
    /\ resp' = [resp EXCEPT ![t] = InternalServerError("joke")]
    /\ pc' = [pc EXCEPT ![t] = "done"]
    /\ UNCHANGED <<now, files, _joke_cache, _joke_cache_count, GITHUB_TOKEN,
                   remote, loc, hist, saveLog, served, putCount, _llm,
                   deployments,
                   login, AUTH_FILE>>

LlmNext ==
    \E t \in Threads :
        \/ StartJokeLlm(t)
        \/ GetLlmCheck(t)
        \/ GetLlmList(t)
        \/ GetLlmDeploy(t)
        \/ GetLlmDeployReady(t)
        \/ GetLlmSet(t)
        \/ GetLlmRaises(t)
        \/ Respond(t)

LlmSpec == LlmInit /\ [][LlmNext]_vars

\* the deployments this process has made
MadeHere == {i \in 1..Len(deployments) : deployments[i].made = "here"}

\* at most one deployment is made, and none beside a running one
C25_Inv ==
    /\ Cardinality(MadeHere) <= 1
    /\ (\E i \in 1..Len(deployments) : deployments[i] = RUNNING_DEPLOYMENT)
          => MadeHere = {}

\* once _llm is set it stays, and a call that finds it set returns it and
\* leaves the deployment service alone
C25_Step(t) ==
    _llm # None
    => /\ _llm' = _llm
       /\ (pc[t] = "llm" /\ pc'[t] # "llm")
             => /\ pc'[t] = "done"
                /\ loc'[t].client = _llm
                /\ UNCHANGED deployments

\* C25: whatever the interleaving of the first /api/joke requests, _get_llm
\* makes at most one deployment, and none when the service lists an Active
\* one; once _llm is set, every later call returns that client and does not
\* call the deployment service.
C25_InitOnce ==
    /\ []C25_Inv
    /\ [][\A t \in Threads : C25_Step(t)]_vars

(***************************************************************************)
(* basilica_login.py: login_device_code                                    *)
(***************************************************************************)
\* resp.get("interval", 5)
DEFAULT_INTERVAL == 5

\* `interval += 5`
SLOW_DOWN_STEP == 5

\* the largest lifetime the authorization server gives a device code
MaxExpiresIn == 12

\* the "interval" of the device-code response, <<>> when it has none
INTERVALS == {<<>>, <<1>>}

\* the "expires_in" of the device-code response
EXPIRES_IN == {0, 1, MaxExpiresIn}

\* what sleep and the request take beyond the interval
DELAYS == {0, 1}

\* the credential file before the login: none, or an earlier login's
OLD_FILES == {NO_FILE, "old tokens"}

\* json.dumps(token_data, indent=2) of this login's token response
NEW_TOKENS == "new tokens"

\* the "error" of a token response with an HTTP error status and a JSON body
POLL_ERRORS ==
    {"authorization_pending", "slow_down", "access_denied", "expired_token",
     "missing"}

\* what a poll of TOKEN_URL can end in at time `time`: the tokens, which the
\* server grants only while the device code is valid, an HTTP error with a
\* JSON body, an HTTP error with another body, or no HTTP answer at all
PollOutcomes(time, expires_at) ==
    (IF time < expires_at THEN {"tokens"} ELSE {})
    \cup POLL_ERRORS \cup {"not json", "no answer"}

LoginInit ==
    /\ now = 1
    /\ files = [x \in {} |-> <<>>]
    /\ _joke_cache = <<>>
    /\ _joke_cache_count = -1
    /\ GITHUB_TOKEN = ""
    /\ remote = {}
    /\ pc = [t \in Threads |-> "idle"]
    /\ loc = [t \in Threads |-> NoLoc]
    /\ resp = [t \in Threads |-> NoResp]
    /\ hist = [t \in Threads |-> NoHist]
    /\ saveLog = <<>>
    /\ served = [joke |-> 0, other |-> 0]
    /\ putCount = 0
    /\ _llm = None
    /\ deployments = <<RUNNING_DEPLOYMENT>>
    /\ login = NoLogin
    /\ AUTH_FILE \in OLD_FILES

\* the variables of the web application, which the login script leaves alone
appVars ==
    <<files, _joke_cache, _joke_cache_count, GITHUB_TOKEN, remote, pc, loc,
      resp, hist, saveLog, served, putCount, _llm, deployments>>

\* _post(DEVICE_CODE_URL, ...) answers, and the locals are set
RequestDeviceCode ==
    /\ login.pc = "start"
    /\ \E interval \in INTERVALS, expires_in \in EXPIRES_IN :
         login' = [login EXCEPT
                      !.pc = "while",
                      !.interval = IF interval = <<>>
                                   THEN DEFAULT_INTERVAL ELSE interval[1],
                      !.expires_at = now + expires_in]
    /\ UNCHANGED <<now, AUTH_FILE, appVars>>

\* _post raises: it prints an HTTP error's body and raises it again
RequestDeviceCodeRaises ==
    /\ login.pc = "start"
    /\ login' = [login EXCEPT !.pc = "raised"]
    /\ UNCHANGED <<now, AUTH_FILE, appVars>>

\* `while time.time() < expires_at`, and the sys.exit(1) after the loop
LoginWhile ==
    /\ login.pc = "while"
    /\ login' = [login EXCEPT !.pc = IF now < login.expires_at
                                     THEN "sleep" ELSE "exit 1"]
    /\ UNCHANGED <<now, AUTH_FILE, appVars>>

\* time.sleep(interval) and the sending of the poll
LoginSleep ==
    /\ login.pc = "sleep"
    /\ \E delay \in DELAYS : now' = now + login.interval + delay
    /\ login' = [login EXCEPT !.pc = "poll"]
    /\ UNCHANGED <<AUTH_FILE, appVars>>

\* a slow_down that leaves the interval as it is
IntervalKept(interval, err) == interval

\* the interval after the error err
IntervalAfter(interval, err) ==
    IF err = "slow_down" THEN interval + SLOW_DOWN_STEP ELSE interval

\* where login_device_code stands after the poll ended in outcome
AfterPoll(outcome) ==
    CASE outcome = "tokens" -> "returned"
      [] outcome \in {"authorization_pending", "slow_down"} -> "while"
      [] outcome = "no answer" -> "raised"
      [] OTHER -> "exit 1"

\* the poll ends: the try block with save_tokens, and the except block
LoginPoll ==
    /\ login.pc = "poll"
    /\ \E outcome \in PollOutcomes(now, login.expires_at) :
         /\ login' = [login EXCEPT
                         !.pc = AfterPoll(outcome),
                         !.last = outcome,
                         !.interval = IntervalAfter(@, outcome),
                         !.granted = @ \/ outcome = "tokens",
                         !.writes = IF outcome = "tokens" THEN @ + 1 ELSE @]
         /\ AUTH_FILE' = IF outcome = "tokens" THEN NEW_TOKENS ELSE AUTH_FILE
    /\ UNCHANGED <<now, appVars>>

LoginNext ==
    \/ RequestDeviceCode
    \/ RequestDeviceCodeRaises
    \/ LoginWhile
    \/ LoginSleep
    \/ LoginPoll

LoginSpec == LoginInit /\ [][LoginNext]_vars

\* the file is written exactly when a poll was granted the tokens, once,
\* and then the function has returned; a login that ended in sys.exit(1)
\* has written nothing
C26_Inv ==
    /\ login.writes = (IF login.granted THEN 1 ELSE 0)
    /\ login.granted <=> login.pc = "returned"
    /\ login.granted <=> AUTH_FILE = NEW_TOKENS
    /\ login.pc = "exit 1" => AUTH_FILE \in OLD_FILES

\* what a step of the polling loop does
C26_Step ==
    /\ login.pc # "start" => login'.interval >= login.interval
    /\ (login.pc = "poll" /\ login'.pc # "poll")
          => /\ login'.last = "tokens" => now < login.expires_at
             /\ login'.last = "authorization_pending"
                   => /\ login'.pc = "while"
                      /\ login'.interval = login.interval
                      /\ UNCHANGED AUTH_FILE
             /\ login'.last = "slow_down"
                   => /\ login'.pc = "while"
                      /\ login'.interval = login.interval + SLOW_DOWN_STEP
                      /\ UNCHANGED AUTH_FILE
             /\ login'.last \in (POLL_ERRORS \cup {"not json"})
                               \ {"authorization_pending", "slow_down"}
                   => login'.pc = "exit 1" /\ UNCHANGED AUTH_FILE
    /\ (login.pc = "while" /\ now >= login.expires_at)
          => login'.pc = "exit 1" /\ UNCHANGED AUTH_FILE

\* C26: login_device_code writes the credential file exactly when a poll is
\* granted the tokens, which happens only before the device code expires,
\* and then it writes once and returns.  An authorization_pending answer
\* only continues the polling, a slow_down answer continues it with the
\* interval raised by 5, and the interval never goes down; any other error
\* answer, and the expiry, end the login with sys.exit(1) and the credential
\* file as it was.
C26_LoginOutcome ==
    /\ []C26_Inv
    /\ [][C26_Step]_vars

\* after a slow_down, with the interval raised, a later poll was granted the
\* tokens and the credential file of an earlier login was replaced
C26_Witness ==
    /\ login.pc = "returned"
    /\ login.interval = 1 + SLOW_DOWN_STEP
    /\ AUTH_FILE = NEW_TOKENS
    /\ login.writes = 1

====
